---------------------------- MODULE Spec2Model ----------------------------
(***************************************************************************)
(* Protocol engine of the Loupedeck Live driver (src/src/Loupedeck):       *)
(* frame reassembly, command framing, transaction ids, the dispatcher and  *)
(* the reader / processor workers.                                         *)
(*                                                                         *)
(* Bytes are integers 0..255 and byte strings are sequences of bytes.      *)
(* Python indices are 0-based; the operators below take 0-based positions  *)
(* and convert where they index a sequence.                                *)
(***************************************************************************)
EXTENDS Integers, Sequences, FiniteSets, TLC

\* Optional values: Python None is the empty sequence, a value v is << v >>.
None == << >>

Some(v) == << v >>

(***************************************************************************)
(* Bounds of the model.                                                    *)
(***************************************************************************)
\* longest byte stream drawn for the reassembler taken alone
MaxStream == 5

(***************************************************************************)
(* Program constants.                                                      *)
(***************************************************************************)
MAX_TRANSACTIONS == 256
NUM_ATTEMPTS == 1
MAGIC_BYTE == 130
SHORT_FRAME_LIMIT == 128

(***************************************************************************)
(* Python helpers: slices, bytes.find, int.to_bytes, int.from_bytes.       *)
(***************************************************************************)
Min(a, b) == IF a < b THEN a ELSE b

Max(a, b) == IF a > b THEN a ELSE b

\* s[a:b] for 0 <= a, b (Python clips both ends to len(s))
Slice(s, a, b) == SubSeq(s, Min(a, Len(s)) + 1, Min(b, Len(s)))

\* s.find(byte): the 0-based position of the first occurrence, or -1
Find(s, byte) ==
    IF \E i \in 1..Len(s) : s[i] = byte
    THEN (CHOOSE i \in 1..Len(s) : s[i] = byte /\ \A j \in 1..(i - 1) : s[j] # byte) - 1
    ELSE -1

\* n.to_bytes(2, "big") for 0 <= n < 65536
ToBytes2(n) == << n \div 256, n % 256 >>

\* n.to_bytes(4, "big") for 0 <= n < 2^32
ToBytes4(n) ==
    << (n \div 16777216) % 256, (n \div 65536) % 256, (n \div 256) % 256, n % 256 >>

\* int.from_bytes(s, "big")
RECURSIVE FromBytes(_)
FromBytes(s) ==
    IF Len(s) = 0 THEN 0
    ELSE 256 * FromBytes(SubSeq(s, 1, Len(s) - 1)) + s[Len(s)]

\* bytearray(n): n zero bytes
Zeros(n) == [i \in 1..n |-> 0]

RECURSIVE Flat(_)
Flat(ss) == IF Len(ss) = 0 THEN << >> ELSE Head(ss) \o Flat(Tail(ss))

(***************************************************************************)
(* Frame reassembler: LoupedeckLive._read_serial.magic_byte_length_parser. *)
(* ScanBuffer is the while loop over the accumulation buffer; it returns   *)
(* the residual buffer and the frames put on the queue, in order.          *)
(***************************************************************************)
\* mutant: the end of the frame is taken one byte short
expected_end_short(buf, position) == position + buf[position + 2] + 1

\* 0-based end of the frame whose marker is at `position`
ExpectedEnd(buf, position) == position + buf[position + 2] + 2

\* the bytes handed to the queue for the frame whose marker is at `position`
FramePayload(buf, position) == Slice(buf, position + 2, ExpectedEnd(buf, position))

RECURSIVE ScanBuffer(_, _)
ScanBuffer(buf, out) ==
    LET position == Find(buf, MAGIC_BYTE) IN
    IF position = -1 THEN [buffer |-> buf, frames |-> out]
    ELSE IF Len(buf) < position + 2 THEN [buffer |-> buf, frames |-> out]
    ELSE IF Len(buf) < ExpectedEnd(buf, position) THEN [buffer |-> buf, frames |-> out]
    ELSE ScanBuffer(Slice(buf, ExpectedEnd(buf, position), Len(buf)),
                    Append(out, FramePayload(buf, position)))

\* mutant: the chunk replaces the accumulation buffer instead of extending it
parser_forgets_buffer(buf, chunk) == ScanBuffer(chunk, << >>)

magic_byte_length_parser(buf, chunk) == ScanBuffer(buf \o chunk, << >>)

(***************************************************************************)
(* Command framing: Loupedeck.send.  prep is the header send builds for a  *)
(* non-raw buffer; a bytearray element outside 0..255 raises ValueError    *)
(* at the assignment, before anything is written.                          *)
(***************************************************************************)
\* mutant: the length byte is the literal length, without the high bit
prep_literal_length(b) ==
    IF Len(b) > SHORT_FRAME_LIMIT
    THEN << 130, 255, 0, 0, 0, 0 >> \o ToBytes4(Len(b)) \o Zeros(4)
    ELSE << 130, Len(b), 0, 0, 0, 0 >>

prep(b) ==
    IF Len(b) > SHORT_FRAME_LIMIT
    THEN << 130, 255, 0, 0, 0, 0 >> \o ToBytes4(Len(b)) \o Zeros(4)
    ELSE << 130, 128 + Len(b), 0, 0, 0, 0 >>

\* what send(b, raw) does: the blocks it writes, in order, or the exception
send(b, raw) ==
    IF raw THEN [raised |-> FALSE, blocks |-> << b >>]
    ELSE IF \E i \in 1..Len(prep(b)) : prep(b)[i] > 255
         THEN [raised |-> TRUE, blocks |-> << >>]
         ELSE [raised |-> FALSE, blocks |-> << prep(b), b >>]

(***************************************************************************)
(* State.                                                                  *)
(***************************************************************************)
VARIABLES
    inited,               \* Loupedeck.inited
    _is_loupedeck,        \* Loupedeck._is_loupedeck
    serial,               \* Loupedeck.serial
    version,              \* Loupedeck.version
    get_serial,           \* LoupedeckLive.get_serial: "None", "clear" or "set"
    callback,             \* Loupedeck.callback: "None" or the name of a callback
    touches,              \* LoupedeckLive.touches: touch id -> touch
    _buffer,              \* Loupedeck._buffer, the accumulation buffer
    pendingTransactions,  \* Loupedeck.pendingTransactions, slots 0..255
    transaction_id,       \* Loupedeck.transaction_id
    _messages,            \* LoupedeckLive._messages, the inbound queue
    reading_running,      \* LoupedeckLive.reading_running
    process_running,      \* LoupedeckLive.process_running
    main_pc,              \* where the thread that built the session stands
    cnt,                  \* is_loupedeck: empty reads so far
    good,                 \* is_loupedeck: matching lines so far
    reader_pc,            \* where the thread running _read_serial stands
    process_pc,           \* where the thread running _process_messages stands
    buff,                 \* _process_messages: the frame popped and in hand
    wire,                 \* blocks written to the transport, oldest first
    rx,                   \* bytes the peer has sent and nobody has read yet
    devlog,               \* history: the blocks the peer has sent, in order
    rdlog,                \* history: the chunks the reader has read, in order
    dispatched,           \* history: the frames dispatched, with the outcome
    events,               \* history: the events handed to the callback
    ncalls,               \* history: how many times do_action allocated an id
    call,                 \* the last call of the command surface and its outcome
    peer,                 \* the lines the peer answers readline() with
    update_lock,          \* Loupedeck.update_lock: owner and depth
    callers,              \* the other threads that call into the session
    orphan_readers        \* reader threads in their loop that reading_thread no longer names

sessionVars == << inited, _is_loupedeck, serial, version, get_serial, callback, touches >>

txVars == << pendingTransactions, transaction_id, ncalls >>

mainVars == << main_pc, cnt, good >>

readerVars == << reader_pc, reading_running >>

processVars == << process_pc, process_running, buff >>

inboundVars == << _buffer, _messages, rx, rdlog >>

histVars == << devlog, dispatched, events >>

envVars == << peer, update_lock, callers, orphan_readers >>

vars == << inited, _is_loupedeck, serial, version, get_serial, callback, touches,
           _buffer, pendingTransactions, transaction_id, _messages, reading_running,
           process_running, main_pc, cnt, good, reader_pc, process_pc, buff, wire,
           rx, devlog, rdlog, dispatched, events, ncalls, call, peer, update_lock,
           callers, orphan_readers >>

\* caller threads besides the one that built the session
Threads == { "t1", "t2" }

\* RLock(): nobody owns it
Unlocked == [owner |-> None, depth |-> 0]

\* a caller thread that is not inside any call
Outside == [pc |-> "outside", depth |-> 0, todo |-> << >>, sent |-> 0]

\* the fields as Loupedeck.__init__ and LoupedeckLive.__init__ set them, before
\* is_loupedeck() is called
Fields ==
    /\ inited = FALSE
    /\ _is_loupedeck = FALSE
    /\ serial = None
    /\ version = None
    /\ get_serial = "None"
    /\ callback = "None"
    /\ touches = << >>
    /\ _buffer = << >>
    /\ pendingTransactions = [i \in 0..(MAX_TRANSACTIONS - 1) |-> None]
    /\ transaction_id = 0
    /\ _messages = << >>
    /\ reading_running = FALSE
    /\ process_running = FALSE
    /\ cnt = 0
    /\ good = 0
    /\ reader_pc = "none"
    /\ process_pc = "none"
    /\ buff = << >>
    /\ wire = << >>
    /\ devlog = << >>
    /\ rdlog = << >>
    /\ dispatched = << >>
    /\ events = << >>
    /\ ncalls = 0
    /\ call = [op |-> "none"]
    /\ update_lock = Unlocked
    /\ callers = [t \in Threads |-> Outside]
    /\ orphan_readers = 0

(***************************************************************************)
(* Lookup tables of LoupedeckLive.py.                                      *)
(***************************************************************************)
CONFIRM == 770
SERIAL_OUT == 771
VERSION_OUT == 775
TICK == 1024
SET_BRIGHTNESS == 1033
SET_VIBRATION == 1051
BUTTON_PRESS == 1280
KNOB_ROTATE == 1281
DRAW == 1295
SET_COLOR == 1794
TOUCH == 2381
TOUCH_END == 2413
VERSION_IN == 3079
SERIAL_IN == 7939
WRITE_FRAMEBUFF == 65296

MAX_BRIGHTNESS == 10

\* self.handlers: header -> handler
handlers ==
    [h \in {BUTTON_PRESS, KNOB_ROTATE, SERIAL_IN, TICK, TOUCH, TOUCH_END, VERSION_IN} |->
        CASE h = BUTTON_PRESS -> "on_button"
          [] h = KNOB_ROTATE -> "on_rotate"
          [] h = SERIAL_IN -> "on_serial"
          [] h = TICK -> "on_tick"
          [] h = TOUCH -> "on_touch"
          [] h = TOUCH_END -> "on_touch_end"
          [] h = VERSION_IN -> "on_version"]

BUTTONS ==
    [c \in 1..14 |->
        << "knobTL", "knobCL", "knobBL", "knobTR", "knobCR", "knobBR", "circle",
           "1", "2", "3", "4", "5", "6", "7" >>[c]]

DISPLAYS ==
    [d \in {"left", "center", "right"} |->
        CASE d = "left" -> [id |-> << 0, 77 >>, width |-> 60, height |-> 270, offset |-> 0]
          [] d = "center" -> [id |-> << 0, 77 >>, width |-> 360, height |-> 270, offset |-> 60]
          [] d = "right" -> [id |-> << 0, 77 >>, width |-> 60, height |-> 270, offset |-> 420]]

(***************************************************************************)
(* Commands: LoupedeckLive.do_action and the calls built on it.  They are  *)
(* functions of the fields they read and write, gathered in a record, so   *)
(* that a call made of several commands is one step.                       *)
(***************************************************************************)
Now ==
    [transaction_id |-> transaction_id, pendingTransactions |-> pendingTransactions,
     wire |-> wire, ncalls |-> ncalls, outcome |-> "none", payload |-> << >>]

\* mutant: the modulo alone, without the step over 0
next_id_with_zero(t) == (t + 1) % MAX_TRANSACTIONS

\* the id do_action allocates after id t
NextId(t) ==
    IF (t + 1) % MAX_TRANSACTIONS = 0 THEN ((t + 1) % MAX_TRANSACTIONS) + 1
    ELSE (t + 1) % MAX_TRANSACTIONS

\* the data argument: None, bytes, or an int that do_action turns into one byte
NoData == [kind |-> "None", v |-> << >>]

Bytes(b) == [kind |-> "bytes", v |-> b]

IntData(k) == [kind |-> "int", v |-> k]

\* data.to_bytes(1, BIG_ENDIAN) for an int, the bytes themselves otherwise
DataBytes(data) ==
    IF data.kind = "None" THEN << >>
    ELSE IF data.kind = "int" THEN << data.v >>
    ELSE data.v

do_action(st, action, data, track) ==
    IF ~inited THEN [st EXCEPT !.outcome = "not started"]
    ELSE IF data.kind = "int" /\ data.v \notin 0..255
    THEN [st EXCEPT !.outcome = "OverflowError"]
    ELSE LET id == NextId(st.transaction_id)
             payload == ToBytes2(action) \o << id >> \o DataBytes(data)
             w == send(payload, FALSE)
         IN [transaction_id |-> id,
             pendingTransactions |->
                 IF track THEN [st.pendingTransactions EXCEPT ![id] = Some(action)]
                 ELSE st.pendingTransactions,
             wire |-> st.wire \o w.blocks,
             ncalls |-> st.ncalls + 1,
             outcome |-> IF w.raised THEN "ValueError" ELSE "sent",
             payload |-> payload]

refresh(st, display) == do_action(st, DRAW, Bytes(DISPLAYS[display].id), TRUE)

\* mutant: the buffer is checked against width*height, one byte per pixel
expected_one_byte_per_pixel(display, width, height) ==
    (IF width = None THEN DISPLAYS[display].width ELSE width[1])
    * (IF height = None THEN DISPLAYS[display].height ELSE height[1])

\* draw_buffer: the buffer length it accepts
Expected(display, width, height) ==
    (IF width = None THEN DISPLAYS[display].width ELSE width[1])
    * (IF height = None THEN DISPLAYS[display].height ELSE height[1]) * 2

\* mutant: the x of the call goes into the command as it is
draw_buffer_without_offset(st, b, display, width, height, x, y, auto_refresh) ==
    IF display \notin DOMAIN DISPLAYS THEN [st EXCEPT !.outcome = "KeyError"]
    ELSE IF Len(b) # Expected(display, width, height) THEN [st EXCEPT !.outcome = "rejected"]
    ELSE LET info == DISPLAYS[display]
             loc_width == IF width = None THEN info.width ELSE width[1]
             loc_height == IF height = None THEN info.height ELSE height[1]
             header == ToBytes2(x) \o ToBytes2(y)
                       \o ToBytes2(loc_width) \o ToBytes2(loc_height)
             st1 == do_action(st, WRITE_FRAMEBUFF, Bytes(info.id \o header \o b), TRUE)
         IN IF auto_refresh /\ st1.outcome # "ValueError" THEN refresh(st1, display)
            ELSE st1

draw_buffer(st, b, display, width, height, x, y, auto_refresh) ==
    IF display \notin DOMAIN DISPLAYS THEN [st EXCEPT !.outcome = "KeyError"]
    ELSE IF Len(b) # Expected(display, width, height) THEN [st EXCEPT !.outcome = "rejected"]
    ELSE LET info == DISPLAYS[display]
             loc_width == IF width = None THEN info.width ELSE width[1]
             loc_height == IF height = None THEN info.height ELSE height[1]
             header == ToBytes2(x + info.offset) \o ToBytes2(y)
                       \o ToBytes2(loc_width) \o ToBytes2(loc_height)
             st1 == do_action(st, WRITE_FRAMEBUFF, Bytes(info.id \o header \o b), TRUE)
         IN IF auto_refresh /\ st1.outcome # "ValueError" THEN refresh(st1, display)
            ELSE st1

\* Haptic feedbacks: pattern name -> byte
HAPTIC ==
    [p \in {"SHORT", "MEDIUM", "LONG", "LOW", "SHORT_LOW", "SHORT_LOWER", "LOWER",
            "LOWEST", "DESCEND_SLOW", "DESCEND_MED", "DESCEND_FAST", "ASCEND_SLOW",
            "ASCEND_MED", "ASCEND_FAST", "REV_SLOWEST", "REV_SLOW", "REV_MED",
            "REV_FAST", "REV_FASTER", "REV_FASTEST", "RISE_FALL", "BUZZ", "RUMBLE5",
            "RUMBLE4", "RUMBLE3", "RUMBLE2", "RUMBLE1", "VERY_LONG"} |->
        CASE p = "SHORT" -> 1 [] p = "MEDIUM" -> 10 [] p = "LONG" -> 15
          [] p = "LOW" -> 49 [] p = "SHORT_LOW" -> 50 [] p = "SHORT_LOWER" -> 51
          [] p = "LOWER" -> 64 [] p = "LOWEST" -> 65
          [] p = "DESCEND_SLOW" -> 70 [] p = "DESCEND_MED" -> 71 [] p = "DESCEND_FAST" -> 72
          [] p = "ASCEND_SLOW" -> 82 [] p = "ASCEND_MED" -> 83 [] p = "ASCEND_FAST" -> 88
          [] p = "REV_SLOWEST" -> 94 [] p = "REV_SLOW" -> 95 [] p = "REV_MED" -> 96
          [] p = "REV_FAST" -> 97 [] p = "REV_FASTER" -> 98 [] p = "REV_FASTEST" -> 99
          [] p = "RISE_FALL" -> 106 [] p = "BUZZ" -> 112
          [] p = "RUMBLE5" -> 119 [] p = "RUMBLE4" -> 120 [] p = "RUMBLE3" -> 121
          [] p = "RUMBLE2" -> 122 [] p = "RUMBLE1" -> 123 [] p = "VERY_LONG" -> 118]

\* mutant: the upper clamp is left out
set_brightness_unclamped(st, brightness) ==
    do_action(st, SET_BRIGHTNESS,
              IntData(IF brightness \div 10 < 1 THEN 0 ELSE brightness \div 10), FALSE)

\* set_brightness: math.floor(brightness / 10), clamped, sent as one byte
set_brightness(st, brightness) ==
    LET floored == brightness \div 10
        low == IF floored < 1 THEN 0 ELSE floored
        high == IF low > MAX_BRIGHTNESS THEN MAX_BRIGHTNESS ELSE low
    IN do_action(st, SET_BRIGHTNESS, Bytes(<< high >>), FALSE)

\* set_button_color with the color given as a tuple (r, g, b)
set_button_color(st, name, color) ==
    LET keys == {k \in DOMAIN BUTTONS : BUTTONS[k] = name} IN
    IF Cardinality(keys) # 1 THEN [st EXCEPT !.outcome = "rejected"]
    ELSE IF Len(color) # 3 \/ \E i \in 1..Len(color) : color[i] \notin 0..255
    THEN [st EXCEPT !.outcome = "ValueError"]
    ELSE do_action(st, SET_COLOR, Bytes(<< CHOOSE k \in keys : TRUE >> \o color), FALSE)

\* mutant: an unknown pattern is played as SHORT
vibrate_with_default(st, pattern) ==
    do_action(st, SET_VIBRATION,
              IntData(IF pattern \in DOMAIN HAPTIC THEN HAPTIC[pattern] ELSE HAPTIC["SHORT"]),
              FALSE)

vibrate(st, pattern) ==
    IF pattern \notin DOMAIN HAPTIC THEN [st EXCEPT !.outcome = "rejected"]
    ELSE do_action(st, SET_VIBRATION, IntData(HAPTIC[pattern]), FALSE)

(***************************************************************************)
(* Dispatcher: the handlers and the body of _process_messages' inner try.  *)
(* A handler is a function of the fields it reads; it returns the fields   *)
(* it writes and whether it raised.  Time stamps of events are left out.   *)
(***************************************************************************)
Handled ==
    [raised |-> FALSE, serial |-> serial, version |-> version, get_serial |-> get_serial,
     touches |-> touches, events |-> events]

\* mutant: the callback that got the first event gets the later ones too
deliver_to_first(evs, e) ==
    IF callback # "None"
    THEN Append(evs, [to |-> IF evs # << >> THEN evs[1].to ELSE callback, event |-> e])
    ELSE evs

\* self.callback(self, e) when a callback is set
Deliver(evs, e) ==
    IF callback # "None" THEN Append(evs, [to |-> callback, event |-> e]) ELSE evs

\* str.strip() on decoded ASCII
Whitespace == {9, 10, 11, 12, 13, 28, 29, 30, 31, 32}

RECURSIVE LStrip(_)
LStrip(s) == IF Len(s) > 0 /\ Head(s) \in Whitespace THEN LStrip(Tail(s)) ELSE s

RECURSIVE RStrip(_)
RStrip(s) ==
    IF Len(s) > 0 /\ s[Len(s)] \in Whitespace THEN RStrip(SubSeq(s, 1, Len(s) - 1)) ELSE s

\* mutant: the on_serial that sets the event and leaves the serial field alone
on_serial_event_only(body) == [Handled EXCEPT !.get_serial = "set"]

on_serial(body) ==
    IF \E i \in 1..Len(body) : body[i] > 127 THEN [Handled EXCEPT !.raised = TRUE]
    ELSE [Handled EXCEPT !.serial = Some(RStrip(LStrip(body))),
                         !.get_serial = IF get_serial # "None" THEN "set" ELSE get_serial]

on_version(body) ==
    IF Len(body) < 3 THEN [Handled EXCEPT !.raised = TRUE]
    ELSE [Handled EXCEPT !.version = Some(<< body[1], body[2], body[3] >>)]

on_button(body) ==
    IF Len(body) < 2 \/ body[1] \notin DOMAIN BUTTONS THEN [Handled EXCEPT !.raised = TRUE]
    ELSE [Handled EXCEPT !.events =
            Deliver(events, [id |-> BUTTONS[body[1]], action |-> "push",
                             state |-> IF body[2] = 0 THEN "down" ELSE "up"])]

on_rotate(body) ==
    IF Len(body) < 2 \/ body[1] \notin DOMAIN BUTTONS THEN [Handled EXCEPT !.raised = TRUE]
    ELSE [Handled EXCEPT !.events =
            Deliver(events, [id |-> BUTTONS[body[1]], action |-> "rotate",
                             state |-> IF body[2] = 1 THEN "right" ELSE "left"])]

on_tick(body) == Handled

\* on_touch: the screen a touch at x belongs to
Screen(x) == IF x < 60 THEN "left" ELSE IF x > 420 THEN "right" ELSE "center"

\* on_touch: the key of a touch on the center screen, None elsewhere
Key(x, y) ==
    IF Screen(x) = "center" THEN Some((y \div 90) * 4 + ((x - 60) \div 90)) ELSE None

on_touch(body, event) ==
    IF Len(body) < 6 THEN [Handled EXCEPT !.raised = TRUE]
    ELSE LET x == FromBytes(Slice(body, 1, 3))
             y == FromBytes(Slice(body, 3, 5))
             idx == body[6]
             start == event = "touchmove" /\ idx \notin DOMAIN touches
             touch == [id |-> idx, action |-> IF start THEN "touchstart" ELSE event,
                       screen |-> Screen(x), key |-> Key(x, y), x |-> x, y |-> y]
         IN IF event = "touchmove"
            THEN [Handled EXCEPT
                    !.touches = IF start THEN (idx :> touch) @@ touches ELSE touches,
                    !.events = Deliver(events, touch)]
            ELSE IF idx \notin DOMAIN touches THEN [Handled EXCEPT !.raised = TRUE]
            ELSE [Handled EXCEPT
                    !.touches = [i \in DOMAIN touches \ {idx} |-> touches[i]],
                    !.events = Deliver(events, touch)]

\* mutant: the end of a touch that is not in the table is delivered like any other
on_touch_end_tolerant(body) ==
    IF Len(body) < 6 THEN [Handled EXCEPT !.raised = TRUE]
    ELSE LET x == FromBytes(Slice(body, 1, 3))
             y == FromBytes(Slice(body, 3, 5))
             idx == body[6]
             touch == [id |-> idx, action |-> "touchend", screen |-> Screen(x),
                       key |-> Key(x, y), x |-> x, y |-> y]
         IN [Handled EXCEPT
               !.touches = [i \in DOMAIN touches \ {idx} |-> touches[i]],
               !.events = Deliver(events, touch)]

on_touch_end(body) == on_touch(body, "touchend")

RunHandler(name, body) ==
    CASE name = "on_button" -> on_button(body)
      [] name = "on_rotate" -> on_rotate(body)
      [] name = "on_serial" -> on_serial(body)
      [] name = "on_tick" -> on_tick(body)
      [] name = "on_touch" -> on_touch(body, "touchmove")
      [] name = "on_touch_end" -> on_touch_end(body)
      [] name = "on_version" -> on_version(body)

\* `transaction_id in self.pendingTransactions`: a test on the values of the list
InPending(tid) == \E i \in DOMAIN pendingTransactions : pendingTransactions[i] = Some(tid)

\* mutant: the frame without its opcode and transaction id
no_handler_body(b) == Slice(b, 3, Len(b))

\* what stands for the handler's result when the opcode has no handler
no_handler(b) == b

\* the inner try of _process_messages for the frame b: the fields it leaves, how
\* it ended (the default callback ran, or an exception was raised, and by what:
\* buff[2] on a short frame, the handler, or the call of the resolver, which is
\* the int that do_action stored), and the response handed on
Dispatch(b) ==
    LET header == FromBytes(Slice(b, 0, 2))
        base == [h |-> Handled, pendingTransactions |-> pendingTransactions,
                 outcome |-> "raised", by |-> "buff[2]", response |-> None]
    IN IF Len(b) < 3 THEN base
       ELSE LET tid == b[3]
                h == IF header \in DOMAIN handlers
                     THEN RunHandler(handlers[header], Slice(b, 3, Len(b)))
                     ELSE Handled
                response == IF header \in DOMAIN handlers THEN None ELSE Some(no_handler(b))
                resolver == IF InPending(tid) THEN pendingTransactions[tid] ELSE None
            IN IF h.raised THEN [base EXCEPT !.h = h, !.by = "handler"]
               ELSE IF resolver # None
               THEN [base EXCEPT !.h = h, !.by = "resolver", !.response = response]
               ELSE [h |-> h,
                     pendingTransactions |-> [pendingTransactions EXCEPT ![tid] = None],
                     outcome |-> "default", by |-> "none", response |-> response]

(***************************************************************************)
(* Session: the handshake (Loupedeck.is_loupedeck), then init() and        *)
(* info(), as LoupedeckLive.__init__ runs them on the constructing thread. *)
(* The peer's answer to readline() is any of the expected lines, an empty  *)
(* read, or another line.                                                  *)
(***************************************************************************)
WS_UPGRADE_HEADER ==
    << 71, 69, 84, 32, 47, 105, 110, 100, 101, 120, 46, 104, 116, 109, 108, 10,
       72, 84, 84, 80, 47, 49, 46, 49, 10,
       67, 111, 110, 110, 101, 99, 116, 105, 111, 110, 58, 32, 85, 112, 103, 114, 97, 100, 101, 10,
       85, 112, 103, 114, 97, 100, 101, 58, 32, 119, 101, 98, 115, 111, 99, 107, 101, 116, 10,
       83, 101, 99, 45, 87, 101, 98, 83, 111, 99, 107, 101, 116, 45, 75, 101, 121, 58, 32,
       49, 50, 51, 97, 98, 99, 10, 10 >>

WS_UPGRADE_RESPONSE ==
    << "HTTP/1.1 101 Switching Protocols\r\n",
       "Upgrade: websocket\r\n",
       "Connection: Upgrade\r\n",
       "Sec-WebSocket-Accept: ALtlZo9FMEUEQleXJmq++ukUQ1s=\r\n",
       "\r\n" >>

Range(s) == {s[i] : i \in DOMAIN s}

Lines == Range(WS_UPGRADE_RESPONSE) \cup {"", "HTTP/1.1 400 Bad Request\r\n"}

\* is_loupedeck, up to the loop: the upgrade request is written raw
IsLoupedeckSend ==
    /\ main_pc = "is_loupedeck"
    /\ ~inited
    /\ wire' = wire \o send(WS_UPGRADE_HEADER, TRUE).blocks
    /\ cnt' = 0
    /\ good' = 0
    /\ main_pc' = "readline"
    /\ UNCHANGED << envVars, sessionVars, txVars, readerVars, processVars, inboundVars,
                    histVars, call >>

\* mutant: the loop gives up one empty read early
attempts_exhausted_early(c) == c >= Max(NUM_ATTEMPTS, 1)

\* is_loupedeck: `cnt > NUM_ATTEMPTS`, NUM_ATTEMPTS raised to 1 if it is less
attempts_exhausted(c) == c > Max(NUM_ATTEMPTS, 1)

\* one turn of the loop of is_loupedeck, readline() returning `line`
Readline(line) ==
    /\ main_pc = "readline"
    /\ line \in peer
    /\ ~inited
    /\ good < Len(WS_UPGRADE_RESPONSE)
    /\ good' = IF line \in Range(WS_UPGRADE_RESPONSE) THEN good + 1 ELSE good
    /\ cnt' = IF line = "" THEN cnt + 1 ELSE cnt
    /\ inited' = attempts_exhausted(cnt')
    /\ UNCHANGED << envVars, _is_loupedeck, serial, version, get_serial, callback, touches,
                    txVars, main_pc, readerVars, processVars, inboundVars, wire,
                    histVars, call >>

\* is_loupedeck after the loop, and the constructor's test of its result
IsLoupedeckReturn ==
    /\ main_pc = "readline"
    /\ inited \/ good >= Len(WS_UPGRADE_RESPONSE)
    /\ inited' = (inited \/ good = Len(WS_UPGRADE_RESPONSE))
    /\ _is_loupedeck' = (_is_loupedeck \/ good = Len(WS_UPGRADE_RESPONSE))
    /\ main_pc' = IF _is_loupedeck' THEN "init" ELSE "idle"
    /\ cnt' = 0
    /\ good' = 0
    /\ call' = [op |-> "is_loupedeck", result |-> _is_loupedeck']
    /\ UNCHANGED << envVars, serial, version, get_serial, callback, touches, txVars,
                    readerVars, processVars, inboundVars, wire, histVars >>

\* mutant: a later call writes the upgrade request again before it returns
is_loupedeck_again_resend ==
    /\ main_pc = "idle"
    /\ inited
    /\ wire' = wire \o send(WS_UPGRADE_HEADER, TRUE).blocks
    /\ call' = [op |-> "is_loupedeck", result |-> _is_loupedeck, cached |-> TRUE]
    /\ UNCHANGED << envVars, sessionVars, txVars, mainVars, readerVars, processVars,
                    inboundVars, histVars >>

\* is_loupedeck called on a session that is inited: `if self.inited: return
\* self._is_loupedeck`
IsLoupedeckAgain ==
    /\ main_pc = "idle"
    /\ inited
    /\ call' = [op |-> "is_loupedeck", result |-> _is_loupedeck, cached |-> TRUE]
    /\ UNCHANGED << envVars, sessionVars, txVars, mainVars, readerVars, processVars,
                    inboundVars, wire, histVars >>

\* start(): the workers it creates.  A reader thread that is still in its loop
\* when reading_thread is assigned a new thread goes on, named by nothing.
StartEffect ==
    /\ reading_running' = (reading_running \/ inited)
    /\ reader_pc' = IF inited /\ ~reading_running THEN "loop" ELSE reader_pc
    /\ orphan_readers' = IF inited /\ ~reading_running /\ reader_pc = "loop"
                         THEN orphan_readers + 1
                         ELSE orphan_readers
    /\ process_running' = (process_running \/ inited)
    /\ process_pc' = IF inited /\ ~process_running THEN "loop" ELSE process_pc

\* init(): start()
InitStart ==
    /\ main_pc = "init"
    /\ StartEffect
    /\ main_pc' = "info"
    /\ UNCHANGED << peer, update_lock, callers, sessionVars, txVars, cnt, good, buff,
                    inboundVars, wire, histVars, call >>

\* the fields a command leaves, and the record of the call
Commanded(r, op) ==
    /\ call' = [op |-> op, outcome |-> r.outcome, payload |-> r.payload,
                blocks |-> SubSeq(r.wire, Len(wire) + 1, Len(r.wire))]
    /\ ncalls' = r.ncalls
    /\ transaction_id' = r.transaction_id
    /\ pendingTransactions' = r.pendingTransactions
    /\ wire' = r.wire

\* info(): the event is created and the serial number asked for
InfoSerial ==
    /\ main_pc = "info"
    /\ get_serial' = "clear"
    /\ Commanded(do_action(Now, SERIAL_OUT, NoData, TRUE), "do_action")
    /\ main_pc' = "info_version"
    /\ UNCHANGED << envVars, inited, _is_loupedeck, serial, version, callback, touches, cnt,
                    good, readerVars, processVars, inboundVars, histVars >>

\* info(): the version asked for
InfoVersion ==
    /\ main_pc = "info_version"
    /\ Commanded(do_action(Now, VERSION_OUT, NoData, TRUE), "do_action")
    /\ main_pc' = "info_wait"
    /\ UNCHANGED << envVars, sessionVars, cnt, good, readerVars, processVars, inboundVars,
                    histVars >>

\* info(): get_serial.wait(10) returns, the event set or the wait timed out, and
\* the sleep that follows ends; the constructor returns
InfoWait ==
    /\ main_pc = "info_wait"
    /\ main_pc' = "idle"
    /\ UNCHANGED << envVars, sessionVars, txVars, cnt, good, readerVars, processVars,
                    inboundVars, wire, histVars, call >>

(***************************************************************************)
(* Workers.  The reader reads one byte at a time (connection.read()); a    *)
(* read of nothing is a timeout.  The processor pops with a timeout.       *)
(***************************************************************************)
\* _read_serial: the loop finds its flag cleared; the worker ends
ReaderExit ==
    /\ reader_pc = "loop"
    /\ ~reading_running
    /\ reader_pc' = "terminated"
    /\ reading_running' = FALSE
    /\ UNCHANGED << envVars, sessionVars, txVars, mainVars, processVars, inboundVars, wire,
                    histVars, call >>

\* _read_serial: one turn of the loop, the read returning a byte or timing out
ReaderRead ==
    /\ reader_pc = "loop"
    /\ reading_running
    /\ IF rx # << >>
       THEN LET r == magic_byte_length_parser(_buffer, << Head(rx) >>) IN
            /\ rx' = Tail(rx)
            /\ rdlog' = Append(rdlog, << Head(rx) >>)
            /\ _buffer' = r.buffer
            /\ _messages' = _messages \o r.frames
       ELSE UNCHANGED inboundVars
    /\ UNCHANGED << envVars, sessionVars, txVars, mainVars, readerVars, processVars,
                    wire, histVars, call >>

\* _process_messages: the loop finds its flag cleared; the worker ends
ProcessExit ==
    /\ process_pc = "loop"
    /\ ~process_running
    /\ process_pc' = "terminated"
    /\ UNCHANGED << envVars, sessionVars, txVars, mainVars, readerVars, process_running, buff,
                    inboundVars, wire, histVars, call >>

\* mutant: the queue hands out its newest item
queue_get_newest(q) == [item |-> q[Len(q)], rest |-> SubSeq(q, 1, Len(q) - 1)]

\* mutant: the pop drops the item behind the one it hands out
queue_get_skipping(q) ==
    [item |-> Head(q), rest |-> IF Len(q) > 1 THEN Tail(Tail(q)) ELSE Tail(q)]

\* Queue.get on a queue that is not empty
queue_get(q) == [item |-> Head(q), rest |-> Tail(q)]

\* _process_messages: one turn of the loop up to the inner try,
\* self._messages.get(timeout=...) returning a frame or timing out
ProcessGet ==
    /\ process_pc = "loop"
    /\ process_running
    /\ IF _messages # << >>
       THEN /\ buff' = queue_get(_messages).item
            /\ _messages' = queue_get(_messages).rest
            /\ process_pc' = "dispatch"
       ELSE /\ UNCHANGED << buff, _messages >>
            /\ process_pc' = "loop"
    /\ UNCHANGED << envVars, sessionVars, txVars, mainVars, readerVars, process_running,
                    _buffer, rx, rdlog, wire, histVars, call >>

\* mutant: an exception of the dispatch ends the worker
after_dispatch_unguarded(outcome) == IF outcome = "raised" THEN "terminated" ELSE "loop"

\* where the processor stands after the inner try / except
after_dispatch(outcome) == "loop"

\* _process_messages: the inner try for the frame in hand
ProcessDispatch ==
    /\ process_pc = "dispatch"
    /\ LET d == Dispatch(buff) IN
       /\ serial' = d.h.serial
       /\ version' = d.h.version
       /\ get_serial' = d.h.get_serial
       /\ touches' = d.h.touches
       /\ events' = d.h.events
       /\ pendingTransactions' = d.pendingTransactions
       /\ dispatched' = Append(dispatched, [frame |-> buff, outcome |-> d.outcome,
                                            by |-> d.by, response |-> d.response])
       /\ process_pc' = after_dispatch(d.outcome)
    /\ buff' = << >>
    /\ UNCHANGED << envVars, inited, _is_loupedeck, callback, transaction_id, ncalls, mainVars,
                    readerVars, process_running, inboundVars, wire, devlog, call >>

(***************************************************************************)
(* The command surface, called on the constructing thread once the         *)
(* constructor has returned.                                               *)
(***************************************************************************)
Start ==
    /\ main_pc = "idle"
    /\ StartEffect
    /\ call' = [op |-> "start", started |-> inited]
    /\ UNCHANGED << peer, update_lock, callers, sessionVars, txVars, mainVars, buff,
                    inboundVars, wire, histVars >>

\* stop(): the flag of the first running worker is cleared and its join begins.
\* A join ends when the worker has left its loop: the worker's read or pop
\* returns within READING_TIMEOUT or get_timeout, half of the join's timeout.
Stop ==
    /\ main_pc = "idle"
    /\ reading_running' = FALSE
    /\ process_running' = (process_running /\ reading_running)
    /\ main_pc' = IF reading_running THEN "stop_join_reader"
                  ELSE IF process_running THEN "stop_join_process"
                  ELSE "idle"
    /\ call' = [op |-> "stop", done |-> (reading_running \/ process_running)]
    /\ UNCHANGED << envVars, sessionVars, txVars, cnt, good, reader_pc, process_pc, buff,
                    inboundVars, wire, histVars >>

\* mutant: the reader has been joined; the processor's flag is left set
join_reader_only ==
    /\ main_pc = "stop_join_reader"
    /\ reader_pc = "terminated"
    /\ main_pc' = IF process_running THEN "stop_join_process" ELSE "idle"
    /\ UNCHANGED << envVars, sessionVars, txVars, cnt, good, readerVars, processVars,
                    inboundVars, wire, histVars, call >>

\* stop(): the reader has been joined; the processor's flag is cleared
StopJoinReader ==
    /\ main_pc = "stop_join_reader"
    /\ reader_pc = "terminated"
    /\ process_running' = FALSE
    /\ main_pc' = IF process_running THEN "stop_join_process" ELSE "idle"
    /\ UNCHANGED << envVars, sessionVars, txVars, cnt, good, readerVars, process_pc, buff,
                    inboundVars, wire, histVars, call >>

\* stop(): the processor has been joined
StopJoinProcess ==
    /\ main_pc = "stop_join_process"
    /\ process_pc = "terminated"
    /\ main_pc' = "idle"
    /\ UNCHANGED << envVars, sessionVars, txVars, cnt, good, readerVars, processVars,
                    inboundVars, wire, histVars, call >>

DoActionCall(action, data, track) ==
    /\ main_pc = "idle"
    /\ UNCHANGED << envVars, mainVars, readerVars, processVars, inboundVars, sessionVars,
                    histVars >>
    /\ Commanded(do_action(Now, action, data, track), "do_action")

DrawBufferCall(b, display, width, height, x, y, auto_refresh) ==
    /\ main_pc = "idle"
    /\ UNCHANGED << envVars, mainVars, readerVars, processVars, inboundVars, sessionVars,
                    histVars >>
    /\ Commanded(draw_buffer(Now, b, display, width, height, x, y, auto_refresh),
                 "draw_buffer")

SetBrightnessCall(brightness) ==
    /\ main_pc = "idle"
    /\ UNCHANGED << envVars, mainVars, readerVars, processVars, inboundVars, sessionVars,
                    histVars >>
    /\ Commanded(set_brightness(Now, brightness), "set_brightness")

SetButtonColorCall(name, color) ==
    /\ main_pc = "idle"
    /\ UNCHANGED << envVars, mainVars, readerVars, processVars, inboundVars, sessionVars,
                    histVars >>
    /\ Commanded(set_button_color(Now, name, color), "set_button_color")

VibrateCall(pattern) ==
    /\ main_pc = "idle"
    /\ UNCHANGED << envVars, mainVars, readerVars, processVars, inboundVars, sessionVars,
                    histVars >>
    /\ Commanded(vibrate(Now, pattern), "vibrate")

set_callback(cb) ==
    /\ main_pc = "idle"
    /\ callback' = cb
    /\ call' = [op |-> "set_callback", callback |-> cb]
    /\ UNCHANGED << envVars, inited, _is_loupedeck, serial, version, get_serial, touches, txVars,
                    mainVars, readerVars, processVars, inboundVars, wire, histVars >>

(***************************************************************************)
(* The peer: a device that has answered the handshake sends framed         *)
(* messages, and stray bytes.                                              *)
(***************************************************************************)
\* a message as the device frames it: marker, length, bytes
Framed(f) == << MAGIC_BYTE, Len(f) >> \o f

DeviceSend(block) ==
    /\ _is_loupedeck
    /\ rx' = rx \o block
    /\ devlog' = Append(devlog, block)
    /\ UNCHANGED << envVars, sessionVars, txVars, mainVars, readerVars, processVars, _buffer,
                    _messages, rdlog, wire, dispatched, events, call >>

(***************************************************************************)
(* SpecFeed: the reassembler taken alone.  A byte stream is drawn, and     *)
(* the parser is applied to it chunk by chunk, each chunk non-empty, from  *)
(* an empty accumulation buffer.                                           *)
(***************************************************************************)
StreamBytes == {MAGIC_BYTE, 0, 1, 2}

RECURSIVE SeqsUpTo(_, _)
SeqsUpTo(S, n) ==
    IF n = 0 THEN {<< >>}
    ELSE LET shorter == SeqsUpTo(S, n - 1) IN
         shorter \cup {Append(s, b) : s \in {t \in shorter : Len(t) = n - 1}, b \in S}

\* 0x82 0x03 'A' 'B' 0x82 0x02 'X' 'Y'
ScenarioStream == << 130, 3, 65, 66, 130, 2, 88, 89 >>

\* the same with the first length byte counting the two bytes 'A' 'B'
ScenarioStream2 == << 130, 2, 65, 66, 130, 2, 88, 89 >>

InitFeed ==
    /\ Fields
    /\ peer = Lines
    /\ main_pc = "idle"
    /\ rx \in SeqsUpTo(StreamBytes, MaxStream) \cup {ScenarioStream, ScenarioStream2}

\* magic_byte_length_parser(chunk) for the next n bytes of the stream
Feed(n) ==
    /\ 1 <= n
    /\ n <= Len(rx)
    /\ LET chunk == SubSeq(rx, 1, n)
           r == magic_byte_length_parser(_buffer, chunk)
       IN /\ _buffer' = r.buffer
          /\ _messages' = _messages \o r.frames
          /\ rx' = SubSeq(rx, n + 1, Len(rx))
          /\ rdlog' = Append(rdlog, chunk)
    /\ UNCHANGED << envVars, sessionVars, txVars, mainVars, readerVars, processVars,
                    wire, histVars, call >>

NextFeed == \E n \in 1..Len(ScenarioStream) : Feed(n)

SpecFeed == InitFeed /\ [][NextFeed]_vars

\* every way of cutting s into non-empty chunks
RECURSIVE Splits(_)
Splits(s) ==
    IF Len(s) = 0 THEN {<< >>}
    ELSE UNION {{<< SubSeq(s, 1, n) >> \o rest : rest \in Splits(SubSeq(s, n + 1, Len(s)))}
                : n \in 1..Len(s)}

\* the parser applied to the chunks in order, from buffer b with frames q enqueued
RECURSIVE FeedAll(_, _, _)
FeedAll(chunks, b, q) ==
    IF Len(chunks) = 0 THEN [buffer |-> b, frames |-> q]
    ELSE LET r == magic_byte_length_parser(b, Head(chunks)) IN
         FeedAll(Tail(chunks), r.buffer, q \o r.frames)

\* C1: however the bytes read so far were cut into chunks, every other way of
\* cutting the same bytes into non-empty chunks enqueues the same frames in the
\* same order and leaves the same residual buffer.
C1_ChunkSizeIndependence ==
    \A other \in Splits(Flat(rdlog)) :
        FeedAll(other, << >>, << >>) = [buffer |-> _buffer, frames |-> _messages]

\* a frame was completed only by a later chunk than the one holding its marker
C1_Witness ==
    /\ Len(rdlog) >= 2
    /\ Len(_messages) >= 1
    /\ Len(rx) = 0
    /\ FeedAll(<< rdlog[1] >>, << >>, << >>).frames = << >>
    /\ Find(rdlog[1], MAGIC_BYTE) # -1


C2_Chunks == << << 130, 3 >>, << 65, 66 >>, << 130, 2, 88, 89 >> >>

C2_Chunks2 == << << 130, 2 >>, << 65, 66 >>, << 130, 2, 88, 89 >> >>

\* C2 as claimed: after the chunks 0x82 0x03, 'A' 'B', 0x82 0x02 'X' 'Y' the queue
\* holds exactly the two frames 'AB' and 'XY'.
C2_Original ==
    rdlog = C2_Chunks => _messages = << << 65, 66 >>, << 88, 89 >> >>

\* C2 amended: the length byte 0x03 makes the first frame three bytes long, so
\* those chunks enqueue the single frame 'A' 'B' 0x82 and leave 0x02 'X' 'Y' in
\* the buffer; with the first chunk 0x82 0x02 the frames are 'AB' then 'XY' and
\* the buffer is left empty.
C2_ScenarioFrames ==
    /\ rdlog = C2_Chunks =>
          /\ _messages = << << 65, 66, 130 >> >>
          /\ _buffer = << 2, 88, 89 >>
    /\ rdlog = C2_Chunks2 =>
          /\ _messages = << << 65, 66 >>, << 88, 89 >> >>
          /\ _buffer = << >>

C2_Witness == rdlog = C2_Chunks


(***************************************************************************)
(* SpecSend: Loupedeck.send taken alone, on a transport that echoes what   *)
(* is written to it, so that the reassembler can be fed the bytes of a     *)
(* command.                                                                *)
(***************************************************************************)
\* longest payload drawn byte by byte
MaxPayload == 3

\* how far past the short-frame limit the long payloads go
MaxOver == 2

PayloadBytes == {MAGIC_BYTE, 0, 7}

\* payloads: every short one over PayloadBytes, and payloads of one repeated byte
\* with the lengths around the short-frame limit
Payloads ==
    SeqsUpTo(PayloadBytes, MaxPayload)
    \cup {[i \in 1..n |-> 7] : n \in (SHORT_FRAME_LIMIT - 2)..(SHORT_FRAME_LIMIT + MaxOver)}

InitSend ==
    /\ Fields
    /\ peer = Lines
    /\ main_pc = "idle"
    /\ rx = << >>

\* one call send(b, raw) on a fresh session
SendCall(b, raw) ==
    /\ call.op = "none"
    /\ wire' = wire \o send(b, raw).blocks
    /\ call' = [op |-> "send", buff |-> b, raw |-> raw, raised |-> send(b, raw).raised,
                blocks |-> send(b, raw).blocks]
    /\ UNCHANGED << envVars, sessionVars, txVars, mainVars, readerVars, processVars,
                    inboundVars, histVars >>

\* the transport hands back the bytes written to it
Echo ==
    /\ wire # << >>
    /\ rx' = rx \o Flat(wire)
    /\ wire' = << >>
    /\ UNCHANGED << envVars, sessionVars, txVars, mainVars, readerVars, processVars,
                    _buffer, _messages, rdlog, histVars, call >>

NextSend ==
    \/ \E b \in Payloads, raw \in BOOLEAN : SendCall(b, raw)
    \/ Echo
    \/ \E n \in {6, Len(rx)} : Feed(n)

SpecSend == InitSend /\ [][NextSend]_vars

\* the bytes of a non-raw send(p) with len(p) <= 0x80 have all been fed
RoundTripDone ==
    /\ call.op = "send"
    /\ ~call.raw
    /\ Len(call.buff) <= SHORT_FRAME_LIMIT
    /\ wire = << >>
    /\ rx = << >>
    /\ Flat(rdlog) = Flat(call.blocks)

\* C3 as claimed: the bytes send(p) writes, fed to an empty reassembler, give
\* exactly one frame, equal to p.
C3_Original == RoundTripDone => _messages = << call.buff >>

\* C3 amended: the bytes send(p) writes for len(p) <= 0x80, fed to an empty
\* reassembler, give no frame: the reassembler takes the length byte
\* 0x80 + len(p) as a literal count, more than the bytes that follow, and keeps
\* everything written in the accumulation buffer.
C3_NoFrameFromOwnCommand ==
    RoundTripDone => /\ _messages = << >>
                     /\ _buffer = Flat(call.blocks)

C3_Witness == RoundTripDone /\ Len(call.buff) = 3 /\ Len(_buffer) = 9

\* C4 as claimed: a non-raw send of n bytes never fails; it writes the header
\* [0x82, 0x80+n, 0,0,0,0] for n <= 0x80 and the 14-byte header for n > 0x80,
\* every element a byte, then the payload.
C4_Original ==
    (call.op = "send" /\ ~call.raw) =>
        LET n == Len(call.buff) IN
        /\ ~call.raised
        /\ Len(call.blocks) = 2
        /\ call.blocks[2] = call.buff
        /\ \A i \in 1..Len(call.blocks[1]) : call.blocks[1][i] \in 0..255
        /\ call.blocks[1] =
              IF n <= SHORT_FRAME_LIMIT
              THEN << 130, 128 + n, 0, 0, 0, 0 >>
              ELSE << 130, 255, 0, 0, 0, 0 >> \o ToBytes4(n) \o << 0, 0, 0, 0 >>

(***************************************************************************)
(* Spec: a whole session.  The constructor runs the handshake and, for a   *)
(* confirmed device, init(); then commands are called while the peer sends *)
(* and the two workers run.                                                *)
(***************************************************************************)
\* blocks the peer sends in a session
MaxFrames == 2

\* commands that reach the allocation of an id in a session
MaxCmds == 3

\* what the peer sends: a key press, a press of an unknown button answering
\* transaction 1, a message cut before its transaction id, the serial number
\* answering transaction 1, a message without handler, and a stray byte
DeviceBlocks ==
    { Framed(<< 5, 0, 0, 7, 0 >>),
      Framed(<< 5, 0, 1, 255, 0 >>),
      Framed(<< 5, 0 >>),
      Framed(<< 31, 3, 1, 83, 78 >>),
      Framed(<< 3, 2, 3 >>),
      << 9 >> }

\* buffers drawn: one byte, one RGB565 pixel, three bytes
Buffers == { << 1 >>, << 1, 2 >>, << 1, 2, 3 >> }

\* width and height drawn: the display's own, or one pixel
Dims == { None, Some(1) }

Init ==
    /\ Fields
    /\ peer = Lines
    /\ main_pc = "is_loupedeck"
    /\ rx = << >>

Next ==
    \/ IsLoupedeckSend
    \/ \E line \in Lines : Readline(line)
    \/ IsLoupedeckReturn
    \/ InitStart
    \/ InfoSerial
    \/ InfoVersion
    \/ InfoWait
    \/ ReaderExit
    \/ ReaderRead
    \/ ProcessExit
    \/ ProcessGet
    \/ ProcessDispatch
    \/ Start
    \/ Stop
    \/ StopJoinReader
    \/ StopJoinProcess
    \/ \E action \in {SERIAL_OUT, 1}, track \in BOOLEAN :
          ncalls < MaxCmds /\ DoActionCall(action, NoData, track)
    \/ \E b \in Buffers, dim \in Dims, auto_refresh \in BOOLEAN :
          ncalls < MaxCmds /\ DrawBufferCall(b, "center", dim, dim, 0, 0, auto_refresh)
    \/ set_callback("cb")
    \/ \E block \in DeviceBlocks : Len(devlog) < MaxFrames /\ DeviceSend(block)

Spec == Init /\ [][Next]_vars

\* the frames dispatched so far, oldest first
DispatchedFrames == [i \in 1..Len(dispatched) |-> dispatched[i].frame]

\* the frame the processor holds between the pop and the end of its dispatch
InHand == IF process_pc = "dispatch" THEN << buff >> ELSE << >>

\* C7 as claimed: the dispatch of a frame that carries the id of an occupied
\* slot of the transaction table leaves that slot empty.
C7_Original ==
    [][(ProcessDispatch /\ Len(buff) >= 3 /\ pendingTransactions[buff[3]] # None)
          => pendingTransactions'[buff[3]] = None]_vars

\* C8: a draw_buffer call whose buffer is not width*height*2 bytes long, the
\* width and height defaulting to those of the display, writes nothing to the
\* transport and leaves the transaction id and the transaction table as they were.
C8_RejectsWrongLength ==
    [][\A b \in Buffers, dim \in Dims, auto_refresh \in BOOLEAN :
          (/\ DrawBufferCall(b, "center", dim, dim, 0, 0, auto_refresh)
           /\ Len(b) # (IF dim = None THEN DISPLAYS["center"].width ELSE dim[1])
                       * (IF dim = None THEN DISPLAYS["center"].height ELSE dim[1]) * 2)
          => /\ wire' = wire
             /\ transaction_id' = transaction_id
             /\ pendingTransactions' = pendingTransactions]_vars

\* a buffer was rejected on a session that has written commands and holds
\* tracked transactions
C8_Witness ==
    /\ _is_loupedeck
    /\ call.op = "draw_buffer"
    /\ call.outcome = "rejected"
    /\ transaction_id = 2
    /\ pendingTransactions[1] # None
    /\ Len(wire) > 1

Handshaken ==
    /\ inited = TRUE
    /\ _is_loupedeck = TRUE
    /\ serial = None
    /\ version = None
    /\ get_serial = "None"
    /\ callback = "None"
    /\ touches = << >>
    /\ _buffer = << >>
    /\ pendingTransactions = [i \in 0..(MAX_TRANSACTIONS - 1) |-> None]
    /\ transaction_id = 0
    /\ _messages = << >>
    /\ reading_running = TRUE
    /\ process_running = TRUE
    /\ main_pc = "info"
    /\ cnt = 0
    /\ good = 0
    /\ reader_pc = "loop"
    /\ process_pc = "loop"
    /\ buff = << >>
    /\ wire = send(WS_UPGRADE_HEADER, TRUE).blocks
    /\ rx = << >>
    /\ devlog = << >>
    /\ rdlog = << >>
    /\ dispatched = << >>
    /\ events = << >>
    /\ ncalls = 0
    /\ call = [op |-> "is_loupedeck", result |-> TRUE]
    /\ peer = Lines
    /\ update_lock = Unlocked
    /\ callers = [t \in Threads |-> Outside]
    /\ orphan_readers = 0

InitLive == Handshaken

NextLive ==
    \/ InfoSerial
    \/ InfoVersion
    \/ InfoWait
    \/ ReaderExit
    \/ ReaderRead
    \/ ProcessExit
    \/ ProcessGet
    \/ ProcessDispatch
    \/ Stop
    \/ StopJoinReader
    \/ StopJoinProcess
    \/ \E track \in BOOLEAN : ncalls < MaxCmds /\ DoActionCall(1, NoData, track)
    \/ \E block \in DeviceBlocks : Len(devlog) < MaxFrames /\ DeviceSend(block)

SpecLive ==
    /\ InitLive
    /\ [][NextLive]_vars
    /\ WF_vars(ProcessGet)
    /\ WF_vars(ProcessDispatch)
    /\ WF_vars(ProcessExit)
    /\ WF_vars(ReaderExit)
    /\ WF_vars(InfoSerial)
    /\ WF_vars(InfoVersion)
    /\ WF_vars(InfoWait)
    /\ WF_vars(StopJoinReader)
    /\ WF_vars(StopJoinProcess)

\* C9: the processor leaves its loop only with its flag cleared, whatever the
\* dispatch of a frame did; and while the flag stays set every queued frame is
\* popped.
C9_DispatchFailureIsolated ==
    /\ [](process_running => process_pc \in {"loop", "dispatch"})
    /\ \A n \in 1..MaxFrames :
          (Len(dispatched) + Len(InHand) + Len(_messages) >= n)
              ~> (~process_running \/ Len(dispatched) >= n)

\* the call of a resolver raised, and the frame queued after that one was
\* dispatched by the same worker
C9_Witness ==
    /\ Len(dispatched) = 2
    /\ dispatched[1].outcome = "raised"
    /\ dispatched[1].by = "resolver"
    /\ dispatched[2].outcome = "default"
    /\ process_running

(***************************************************************************)
(* SpecTx: the transaction ids of a confirmed device over more commands    *)
(* than there are ids.  The peer takes what is written before the next     *)
(* command, and may send one message in answer to transaction 1.           *)
(***************************************************************************)
\* commands that reach the allocation of an id
MaxCalls == 258

\* tracked commands are called only when the id to come is at most this
MaxTrackedId == 2

\* messages the peer sends
MaxReplies == 1

\* the data of a command: none, or 125 bytes, which with the 3 bytes of the
\* header make a payload of 0x80 bytes
TxData == { NoData, Bytes(Zeros(SHORT_FRAME_LIMIT - 3)) }

\* the serial number in answer to transaction 1, and a press of an unknown
\* button carrying the same id
ReplyBlocks == { Framed(<< 31, 3, 1, 83, 78 >>), Framed(<< 5, 0, 1, 255, 0 >>) }

\* the peer takes the bytes written to the transport
PeerTake ==
    /\ wire # << >>
    /\ wire' = << >>
    /\ UNCHANGED << envVars, sessionVars, txVars, mainVars, readerVars, processVars,
                    inboundVars, histVars, call >>

InitTx == Handshaken

NextTx ==
    \/ InfoSerial
    \/ InfoVersion
    \/ InfoWait
    \/ \E data \in TxData, track \in BOOLEAN :
          /\ ncalls < MaxCalls
          /\ wire = << >>
          /\ track => NextId(transaction_id) <= MaxTrackedId
          /\ DoActionCall(SERIAL_OUT, data, track)
    \/ PeerTake
    \/ ReaderRead
    \/ ProcessGet
    \/ ProcessDispatch
    \/ \E block \in ReplyBlocks : Len(devlog) < MaxReplies /\ DeviceSend(block)

SpecTx == InitTx /\ [][NextTx]_vars

\* C5: the n-th command that allocates an id gets the id ((n-1) mod 255) + 1,
\* so the ids run 1, 2, ..., 255, 1, ... and are never 0; and the frame a
\* command writes carries the id just allocated as its third byte.
C5_IdAllocation ==
    /\ ncalls > 0 => transaction_id = ((ncalls - 1) % (MAX_TRANSACTIONS - 1)) + 1
    /\ (call.op = "do_action" /\ call.outcome = "sent") =>
          /\ call.blocks[2][3] = transaction_id
          /\ call.blocks[2][3] \in 1..(MAX_TRANSACTIONS - 1)

\* the 256th command has been sent, with id 1 again
C5_Witness ==
    /\ ncalls = MAX_TRANSACTIONS
    /\ call.op = "do_action"
    /\ call.outcome = "sent"
    /\ call.blocks[2][3] = 1

\* C6 as claimed: a tracked do_action allocates an id whose slot of the
\* transaction table is empty.
C6_Original ==
    [][\A data \in TxData :
          DoActionCall(SERIAL_OUT, data, TRUE) => pendingTransactions[transaction_id'] = None]_vars

(***************************************************************************)
(* SpecHandshake: the constructor against every kind of peer.  A peer is   *)
(* the set of lines it answers readline() with: all of them, none but the  *)
(* empty read of a silent peer, only lines that match nothing, one         *)
(* expected line repeated, and so on.  The constructing thread is          *)
(* scheduled fairly; what a read returns is the peer's choice.             *)
(***************************************************************************)
Peers == SUBSET Lines \ { {} }

InitHandshake ==
    /\ Fields
    /\ main_pc = "is_loupedeck"
    /\ rx = << >>
    /\ peer \in Peers

NextHandshake ==
    \/ IsLoupedeckSend
    \/ \E line \in Lines : Readline(line)
    \/ IsLoupedeckReturn
    \/ InitStart
    \/ InfoSerial
    \/ InfoVersion
    \/ InfoWait
    \/ IsLoupedeckAgain

SpecHandshake ==
    /\ InitHandshake
    /\ [][NextHandshake]_vars
    /\ WF_vars(IsLoupedeckSend)
    /\ WF_vars(\E line \in Lines : Readline(line))
    /\ WF_vars(IsLoupedeckReturn)

\* C11 as claimed: the session is confirmed as the device only for a peer that
\* sends every one of the expected lines.
C11_Original == _is_loupedeck => Range(WS_UPGRADE_RESPONSE) \subseteq peer

\* C12 as claimed: whatever the peer answers, is_loupedeck returns.
C12_Original == <>(main_pc \notin {"is_loupedeck", "readline"})

\* C13 as claimed: while the handshake has not confirmed the device, a
\* do_action call writes nothing to the transport and start() starts no worker.
C13_Original ==
    [][~_is_loupedeck =>
          /\ (\E action \in {SERIAL_OUT, 1}, track \in BOOLEAN :
                 DoActionCall(action, NoData, track)) => wire' = wire
          /\ Start => (reader_pc' = reader_pc /\ process_pc' = process_pc)]_vars

(***************************************************************************)
(* SpecCmd: the command surface of a confirmed device, called from one     *)
(* thread.  The peer takes what is written between two commands.           *)
(***************************************************************************)
\* commands that reach the allocation of an id
MaxSurface == 6

Brightnesses == { -15, -1, 0, 5, 9, 10, 19, 55, 99, 100, 101, 109, 110, 155, 255 }

ButtonNames == { "circle", "1", "knobTL", "left", "8" }

Colors == { << 255, 0, 16 >>, << 0, 300, 0 >> }

Patterns == { "SHORT", "BUZZ", "VERY_LONG", "short", "NONE" }

\* n pixel bytes, no two neighbours alike
PixelBytes(n) == [i \in 1..n |-> i % 256]

\* draw_buffer calls: one pixel on the center screen, a row of the left screen
\* with the width left out, a column of the right screen with the height left
\* out, the whole left screen with both left out, and a buffer of three bytes
\* for one pixel
DrawCalls ==
    { [b |-> PixelBytes(2), display |-> "center", width |-> Some(1), height |-> Some(1),
       x |-> 3, y |-> 5],
      [b |-> PixelBytes(120), display |-> "left", width |-> None, height |-> Some(1),
       x |-> 0, y |-> 7],
      [b |-> PixelBytes(540), display |-> "right", width |-> Some(1), height |-> None,
       x |-> 59, y |-> 0],
      [b |-> PixelBytes(32400), display |-> "left", width |-> None, height |-> None,
       x |-> 0, y |-> 0],
      [b |-> PixelBytes(3), display |-> "right", width |-> Some(1), height |-> Some(1),
       x |-> 0, y |-> 269] }

InitCmd == Handshaken

NextCmd ==
    \/ InfoSerial
    \/ InfoVersion
    \/ InfoWait
    \/ PeerTake
    \/ \E brightness \in Brightnesses :
          ncalls < MaxSurface /\ wire = << >> /\ SetBrightnessCall(brightness)
    \/ \E name \in ButtonNames, color \in Colors :
          ncalls < MaxSurface /\ wire = << >> /\ SetButtonColorCall(name, color)
    \/ \E pattern \in Patterns :
          ncalls < MaxSurface /\ wire = << >> /\ VibrateCall(pattern)
    \/ \E a \in DrawCalls, auto_refresh \in BOOLEAN :
          /\ ncalls < MaxSurface /\ wire = << >>
          /\ DrawBufferCall(a.b, a.display, a.width, a.height, a.x, a.y, auto_refresh)

SpecCmd == InitCmd /\ [][NextCmd]_vars

\* C14: set_button_color with a name that no button has, and vibrate with a
\* pattern that is not in the haptic table, write nothing to the transport and
\* leave the transaction id and the transaction table as they were.
C14_UnknownNamesRejected ==
    [][/\ \A name \in ButtonNames, color \in Colors :
             (SetButtonColorCall(name, color) /\ \A k \in DOMAIN BUTTONS : BUTTONS[k] # name)
             => /\ wire' = wire
                /\ transaction_id' = transaction_id
                /\ pendingTransactions' = pendingTransactions
       /\ \A pattern \in Patterns :
             (VibrateCall(pattern) /\ pattern \notin DOMAIN HAPTIC)
             => /\ wire' = wire
                /\ transaction_id' = transaction_id
                /\ pendingTransactions' = pendingTransactions]_vars

\* an unknown pattern was rejected on a session that has sent commands
C14_Witness ==
    /\ call.op = "vibrate"
    /\ call.outcome = "rejected"
    /\ transaction_id = 3
    /\ pendingTransactions[1] # None

\* C20: set_brightness(b) writes one command, SET_BRIGHTNESS with the id just
\* allocated and the single data byte min(10, max(0, floor(b / 10))).
C20_BrightnessMapping ==
    [][\A brightness \in Brightnesses :
          SetBrightnessCall(brightness)
          => /\ call'.outcome = "sent"
             /\ wire' = wire \o << << MAGIC_BYTE, 128 + 4, 0, 0, 0, 0 >>,
                                   << 4, 9, transaction_id',
                                      Min(10, Max(0, brightness \div 10)) >> >>]_vars

\* a brightness of 100 or more has been sent, as the data byte 10
C20_Witness ==
    /\ call.op = "set_brightness"
    /\ call.outcome = "sent"
    /\ call.payload[4] = 10
    /\ call.blocks = wire

\* the dispatches of frames of at least three bytes whose opcode has no handler
\* and that reached the default callback
Unhandled ==
    {i \in DOMAIN dispatched :
        /\ Len(dispatched[i].frame) >= 3
        /\ FromBytes(Slice(dispatched[i].frame, 0, 2)) \notin DOMAIN handlers
        /\ dispatched[i].outcome = "default"}

\* C18 as claimed: for a frame whose opcode has no handler the default
\* callback receives the body, the bytes after opcode and transaction id.
C18_Original ==
    \A i \in Unhandled :
        dispatched[i].response
            = Some(Slice(dispatched[i].frame, 3, Len(dispatched[i].frame)))

\* C18 amended: for a frame whose opcode has no handler the default callback
\* receives the whole frame, opcode and transaction id included, unchanged.
C18_WholeFramePassedOn ==
    \A i \in Unhandled : dispatched[i].response = Some(dispatched[i].frame)

\* the message 0x03 0x02 with transaction id 3 has reached the default callback
C18_Witness ==
    /\ Unhandled # {}
    /\ \E i \in Unhandled : dispatched[i].frame = << 3, 2, 3 >>

\* C15: once stop() has cleared the flags, both workers leave their loops and
\* terminate; a worker that has left its loop reads nothing more from the
\* transport and dispatches nothing more.
C15_CooperativeShutdown ==
    /\ (call.op = "stop") ~> (reader_pc = "terminated" /\ process_pc = "terminated")
    /\ [][/\ reader_pc = "terminated" => (rdlog' = rdlog /\ _buffer' = _buffer)
          /\ process_pc = "terminated" => (dispatched' = dispatched /\ _messages' = _messages)
         ]_vars

\* stop() was called with a frame queued and bytes unread, and has returned
\* with both workers terminated
C15_Witness ==
    /\ call.op = "stop"
    /\ main_pc = "idle"
    /\ reader_pc = "terminated"
    /\ process_pc = "terminated"
    /\ _messages # << >>
    /\ rx # << >>

\* C19: whenever the event info() waits on is set, the serial field is
\* populated; the event becomes set only in the dispatch of a SERIAL_IN frame;
\* and info(), once called, returns.
C19_SerialReadiness ==
    /\ [](get_serial = "set" => serial # None)
    /\ [][(get_serial' = "set" /\ get_serial # "set")
             => (ProcessDispatch /\ FromBytes(Slice(buff, 0, 2)) = SERIAL_IN)]_vars
    /\ (main_pc = "info") ~> (main_pc = "idle")

\* the serial number arrived while info() was waiting
C19_Witness ==
    /\ main_pc = "info_wait"
    /\ get_serial = "set"
    /\ serial = Some(<< 83, 78 >>)

(***************************************************************************)
(* SpecLock: the session built, then two more threads that call send and   *)
(* use the session as a context manager.  A write of one block to the      *)
(* transport is one step; the lock is the RLock of the session.  The       *)
(* threads send framed commands (raw = False): the raw branch is used by   *)
(* is_loupedeck alone, before the constructor returns.                     *)
(***************************************************************************)
MaxNest == 2

MaxWire == 11

\* the command body thread t sends; the two differ in length, so their headers differ
Body(t) == IF t = "t1" THEN << 1 >> ELSE << 2, 2 >>

\* mutant: a lock that any thread may take at any time
may_acquire_always(lock, t) == TRUE

\* mutant: a lock that is not re-entrant
may_acquire_unowned(lock, t) == lock.owner = None

\* RLock.acquire returns for thread t: nobody owns the lock, or t owns it
may_acquire(lock, t) == lock.owner = None \/ lock.owner = Some(t)

\* RLock.acquire, returned
acquire(lock, t) == [owner |-> Some(t), depth |-> lock.depth + 1]

\* RLock.release
release(lock) == IF lock.depth = 1 THEN Unlocked ELSE [lock EXCEPT !.depth = @ - 1]

\* what the lock steps of the threads leave alone
LockFrame ==
    UNCHANGED << peer, orphan_readers, sessionVars, txVars, mainVars, readerVars,
                 processVars, inboundVars, histVars, call >>

\* __enter__: `with deck:` entered by thread t
Enter(t) ==
    /\ main_pc = "idle"
    /\ callers[t].pc \in { "outside", "block" }
    /\ callers[t].depth < MaxNest
    /\ may_acquire(update_lock, t)
    /\ update_lock' = acquire(update_lock, t)
    /\ callers' = [callers EXCEPT ![t] = [pc |-> "block", depth |-> @.depth + 1,
                                          todo |-> << >>, sent |-> @.sent]]
    /\ wire' = wire
    /\ LockFrame

\* __exit__: thread t leaves its `with deck:` block
Exit(t) ==
    /\ callers[t].pc = "block"
    /\ update_lock' = release(update_lock)
    /\ callers' = [callers EXCEPT ![t] =
                      IF @.depth = 1 THEN Outside
                      ELSE [@ EXCEPT !.depth = @ - 1]]
    /\ wire' = wire
    /\ LockFrame

\* send(buff): called by thread t, the header computed, the lock not yet asked for
CallSend(t) ==
    /\ main_pc = "idle"
    /\ callers[t].pc \in { "outside", "block" }
    /\ Len(wire) < MaxWire
    /\ ~send(Body(t), FALSE).raised
    /\ callers' = [callers EXCEPT ![t].pc = "send_enter", ![t].todo = Body(t)]
    /\ UNCHANGED << update_lock, wire >>
    /\ LockFrame

\* send: `with self:` entered
SendEnter(t) ==
    /\ callers[t].pc = "send_enter"
    /\ may_acquire(update_lock, t)
    /\ update_lock' = acquire(update_lock, t)
    /\ callers' = [callers EXCEPT ![t].pc = "send_prep"]
    /\ wire' = wire
    /\ LockFrame

\* send: self.connection.write(prep)
SendWritePrep(t) ==
    /\ callers[t].pc = "send_prep"
    /\ wire' = Append(wire, send(callers[t].todo, FALSE).blocks[1])
    /\ callers' = [callers EXCEPT ![t].pc = "send_buff"]
    /\ UNCHANGED update_lock
    /\ LockFrame

\* send: self.connection.write(buff)
SendWriteBuff(t) ==
    /\ callers[t].pc = "send_buff"
    /\ wire' = Append(wire, send(callers[t].todo, FALSE).blocks[2])
    /\ callers' = [callers EXCEPT ![t].pc = "send_exit"]
    /\ UNCHANGED update_lock
    /\ LockFrame

\* send: the `with self:` left, send returns
SendExit(t) ==
    /\ callers[t].pc = "send_exit"
    /\ update_lock' = release(update_lock)
    /\ callers' = [callers EXCEPT ![t] =
                      IF @.depth = 0 THEN Outside
                      ELSE [@ EXCEPT !.pc = "block", !.todo = << >>, !.sent = @ + 1]]
    /\ wire' = wire
    /\ LockFrame

InitLock == Handshaken

NextLock ==
    \/ InfoSerial
    \/ InfoVersion
    \/ InfoWait
    \/ \E t \in Threads : Enter(t)
    \/ \E t \in Threads : Exit(t)
    \/ \E t \in Threads : CallSend(t)
    \/ \E t \in Threads : SendEnter(t)
    \/ \E t \in Threads : SendWritePrep(t)
    \/ \E t \in Threads : SendWriteBuff(t)
    \/ \E t \in Threads : SendExit(t)

\* a thread that may go on does go on
SpecLock ==
    /\ InitLock
    /\ [][NextLock]_vars
    /\ \A t \in Threads :
          /\ WF_vars(SendEnter(t))
          /\ WF_vars(SendWritePrep(t))
          /\ WF_vars(SendWriteBuff(t))
          /\ WF_vars(SendExit(t))

\* the blocks written after the handshake's request
Written == Tail(wire)

\* C16: what the calls of send wrote is a sequence of commands, each the
\* header of a body followed at once by that body; a header at the very end
\* is that of a thread between its two writes.
C16_WritesContiguous ==
    main_pc = "idle" =>
        /\ \A k \in 1..(Len(Written) \div 2) :
              /\ ~send(Written[2 * k], FALSE).raised
              /\ Written[2 * k - 1] = send(Written[2 * k], FALSE).blocks[1]
        /\ Len(Written) % 2 = 1 =>
              \E t \in Threads :
                 /\ callers[t].pc = "send_buff"
                 /\ Written[Len(Written)] = send(callers[t].todo, FALSE).blocks[1]

\* a thread is between its header and its body while the other one waits for
\* the lock, and a command of the other one is already on the wire
C16_Witness ==
    /\ callers["t1"].pc = "send_buff"
    /\ callers["t2"].pc = "send_enter"
    /\ \E k \in 1..(Len(Written) \div 2) : Written[2 * k] = Body("t2")

InBlock(t) == callers[t].depth > 0

\* C17: while a thread is inside a `with deck:` block no other thread writes
\* to the transport, and a send the thread calls inside its block returns.
C17_UpdateLock ==
    /\ [][\A t \in Threads : InBlock(t) =>
             \A u \in Threads \ { t } : ~(SendWritePrep(u) \/ SendWriteBuff(u))]_vars
    /\ \A t \in Threads :
          (InBlock(t) /\ callers[t].pc = "send_enter")
             ~> (InBlock(t) /\ callers[t].pc = "block" /\ callers[t].sent > 0)

\* inside nested blocks a thread has sent one command and is writing the
\* next, while the other thread waits in its own send
C17_Witness ==
    /\ callers["t1"].depth = 2
    /\ callers["t1"].sent = 1
    /\ callers["t1"].pc = "send_buff"
    /\ callers["t2"].pc = "send_enter"

\* C30: against a peer whose every answer is empty, each read of the handshake
\* adds one to the count of empty reads, is_loupedeck returns when that count
\* is NUM_ATTEMPTS + 1 and not before, and it returns False with the session
\* inited and not a Loupedeck; and it does return.
C30_SilentPeer ==
    /\ [][(peer = { "" } /\ main_pc = "readline") =>
             /\ (\E line \in Lines : Readline(line)) => cnt' = cnt + 1
             /\ IsLoupedeckReturn =>
                   /\ cnt = NUM_ATTEMPTS + 1
                   /\ inited' /\ ~_is_loupedeck'
                   /\ call' = [op |-> "is_loupedeck", result |-> FALSE]
                   /\ main_pc' = "idle"]_vars
    /\ (peer = { "" } /\ main_pc = "is_loupedeck")
          ~> (main_pc = "idle" /\ inited /\ ~_is_loupedeck)

\* the handshake has ended against the silent peer
C30_Witness ==
    /\ peer = { "" }
    /\ call = [op |-> "is_loupedeck", result |-> FALSE]
    /\ inited
    /\ main_pc = "idle"
    /\ wire = send(WS_UPGRADE_HEADER, TRUE).blocks

(***************************************************************************)
(* SpecTouch: a confirmed device that sends touch frames, while the        *)
(* callback is set and replaced.                                           *)
(***************************************************************************)
MaxTouchFrames == 3

\* a TOUCH or TOUCH_END message as the device frames it, transaction id 0
TouchBlock(op, x, y, idx) ==
    Framed(ToBytes2(op) \o << 0, 0 >> \o ToBytes2(x) \o ToBytes2(y) \o << idx >>)

\* touches on the right screen, on its first column, on the left screen and
\* on the center screen, and the ends of touches 1 and 2
TouchBlocks ==
    { TouchBlock(TOUCH, 500, 10, 1),
      TouchBlock(TOUCH, 420, 200, 1),
      TouchBlock(TOUCH, 59, 0, 2),
      TouchBlock(TOUCH, 60, 269, 1),
      TouchBlock(TOUCH_END, 500, 10, 1),
      TouchBlock(TOUCH_END, 100, 100, 2) }

NextTouch ==
    \/ InfoSerial
    \/ InfoVersion
    \/ InfoWait
    \/ ReaderRead
    \/ ProcessGet
    \/ ProcessDispatch
    \/ \E cb \in { "cb1", "cb2" } : callback # cb /\ set_callback(cb)
    \/ \E block \in TouchBlocks : Len(devlog) < MaxTouchFrames /\ DeviceSend(block)

SpecTouch == InitLive /\ [][NextTouch]_vars

\* the touch events delivered so far
TouchEvents ==
    { events[i].event : i \in { j \in 1..Len(events) : "screen" \in DOMAIN events[j].event } }

\* C21 as claimed: a touch at x = 500, y = 10 is on the right screen and has no
\* key; only a touch on the center screen has a key; a touch with x at or
\* beyond 420 is on the right screen, one with x below 60 on the left screen.
C21_Original ==
    \A e \in TouchEvents :
       /\ (e.x = 500 /\ e.y = 10) => (e.screen = "right" /\ e.key = None)
       /\ e.key # None => e.screen = "center"
       /\ e.x >= DISPLAYS["right"].offset => e.screen = "right"
       /\ e.x < DISPLAYS["center"].offset => e.screen = "left"

\* the frame the processor is about to dispatch is a whole touch frame
TouchInHand ==
    /\ process_pc = "dispatch"
    /\ Len(buff) = 9
    /\ FromBytes(Slice(buff, 0, 2)) \in { TOUCH, TOUCH_END }

\* C24 as claimed: with a callback set, the dispatch of a move frame whose id
\* is not in the table delivers touchstart and puts the id in the table, that
\* of a move frame whose id is in the table delivers touchmove and leaves the
\* table alone, and that of an end frame delivers touchend and leaves the id
\* out of the table.
C24_Original ==
    [][(ProcessDispatch /\ TouchInHand /\ callback # "None") =>
          LET idx == buff[9]
              move == FromBytes(Slice(buff, 0, 2)) = TOUCH
              action == IF ~move THEN "touchend"
                        ELSE IF idx \in DOMAIN touches THEN "touchmove" ELSE "touchstart"
          IN /\ Len(events') = Len(events) + 1
             /\ events'[Len(events')].to = callback
             /\ events'[Len(events')].event.id = idx
             /\ events'[Len(events')].event.action = action
             /\ DOMAIN touches' = IF move THEN DOMAIN touches \cup { idx }
                                  ELSE DOMAIN touches \ { idx }]_vars

\* C26: a single callback is registered at any time, and a step that delivers
\* an event delivers that one event to the callback registered at that time.
C26_OnlyCurrentCallback ==
    /\ [](callback \in { "None", "cb1", "cb2" })
    /\ [][events' # events =>
            /\ callback # "None"
            /\ Len(events') = Len(events) + 1
            /\ SubSeq(events', 1, Len(events)) = events
            /\ events'[Len(events')].to = callback]_vars

\* an event went to the first callback, the callback was replaced, and the
\* next event went to the second one
C26_Witness ==
    /\ Len(events) >= 2
    /\ events[1].to = "cb1"
    /\ events[2].to = "cb2"
    /\ callback = "cb2"

\* the commands among the blocks a call wrote: of each pair of blocks the second
CommandsOf(blocks) == { blocks[2 * k] : k \in 1..(Len(blocks) \div 2) }

\* C25: a draw_buffer whose buffer is accepted writes one WRITE_FRAMEBUFF
\* command, tracked under the id it allocates; its data are the id of the
\* display, then x plus the display's offset, y, the width and the height, two
\* bytes each, high byte first, the width and the height being the display's
\* own where the call leaves them out, then the buffer as it was given.
C25_WriteRegionPayload ==
    [][\A a \in DrawCalls, auto_refresh \in BOOLEAN :
          (/\ DrawBufferCall(a.b, a.display, a.width, a.height, a.x, a.y, auto_refresh)
           /\ call'.outcome = "sent")
          => LET id == NextId(transaction_id)
                 region == DISPLAYS[a.display]
                 w == IF a.width = None THEN region.width ELSE a.width[1]
                 h == IF a.height = None THEN region.height ELSE a.height[1]
                 two(n) == << n \div 256, n % 256 >>
                 command == << 255, 16, id >> \o region.id \o two(a.x + region.offset)
                            \o two(a.y) \o two(w) \o two(h) \o a.b
             IN /\ { c \in CommandsOf(call'.blocks) : SubSeq(c, 1, 2) = << 255, 16 >> }
                      = { command }
                /\ call'.blocks[2] = command
                /\ pendingTransactions'[id] = Some(WRITE_FRAMEBUFF)]_vars

\* a column of the right screen was drawn at x = 59 with the height left out,
\* and refreshed
C25_Witness ==
    /\ call.op = "draw_buffer"
    /\ call.outcome = "sent"
    /\ Len(call.blocks) = 4
    /\ SubSeq(call.blocks[2], 4, 13) = << 0, 77, 1, 223, 0, 0, 0, 1, 1, 14 >>

(***************************************************************************)
(* SpecPixel: draw_image on a confirmed device, that is                    *)
(* PILHelper.to_native_format followed by draw_buffer, for small images.   *)
(***************************************************************************)
\* commands that reach the allocation of an id: the two of info() and one more
MaxPixelCmds == 3

\* a & b on naturals
RECURSIVE BitAnd(_, _)
BitAnd(a, b) ==
    IF a = 0 \/ b = 0 THEN 0
    ELSE (a % 2) * (b % 2) + 2 * BitAnd(a \div 2, b \div 2)

\* mutant: five bits for each channel
rgb555(r, g, b) == (r \div 8) * 1024 + (g \div 8) * 32 + (b \div 8)

\* to_native_format.rgb565
rgb565(r, g, b) ==
    LET p1 == BitAnd(r, 248)
        p2a == BitAnd(g, 224) \div 32
        p2b == BitAnd(g, 28) * 8
        p3 == BitAnd(b, 248) \div 8
        b1 == p1 + p2a
        b2 == p2b + p3
    IN b1 * 256 + b2

\* to_native_format: rows from the top, in a row the pixels from the left, of
\* each pixel b16.to_bytes(2, "little")
to_native_format(image) ==
    Flat([k \in 1..(image.width * image.height) |->
            LET p == image.px[<< (k - 1) % image.width, (k - 1) \div image.width >>]
                b16 == rgb565(p[1], p[2], p[3])
            IN << b16 % 256, b16 \div 256 >>])

\* images: every single pixel over six channel values, and every image of up to
\* two by two pixels over black, white, red and a dark blue-green
Images ==
    LET Channels == { 0, 4, 7, 8, 36, 255 }
        Palette == { << 0, 0, 0 >>, << 255, 255, 255 >>, << 255, 0, 0 >>, << 0, 4, 8 >> }
        Sized(w, h, colours) ==
            { [width |-> w, height |-> h, px |-> f] :
                f \in [(0..(w - 1)) \X (0..(h - 1)) -> colours] }
    IN Sized(1, 1, Channels \X Channels \X Channels)
       \cup UNION { Sized(w, h, Palette) : w \in 1..2, h \in 1..2 }

\* draw_image: the image converted, then draw_buffer
DrawImageCall(image, display, width, height, x, y, auto_refresh) ==
    /\ main_pc = "idle"
    /\ UNCHANGED << envVars, mainVars, readerVars, processVars, inboundVars, sessionVars,
                    histVars >>
    /\ LET r == draw_buffer(Now, to_native_format(image), display, width, height, x, y,
                            auto_refresh)
       IN /\ call' = [op |-> "draw_image", image |-> image, outcome |-> r.outcome,
                      blocks |-> SubSeq(r.wire, Len(wire) + 1, Len(r.wire))]
          /\ ncalls' = r.ncalls
          /\ transaction_id' = r.transaction_id
          /\ pendingTransactions' = r.pendingTransactions
          /\ wire' = r.wire

NextPixel ==
    \/ InfoSerial
    \/ InfoVersion
    \/ InfoWait
    \/ PeerTake
    \/ \E image \in Images :
          /\ ncalls < MaxPixelCmds
          /\ DrawImageCall(image, "center", Some(image.width), Some(image.height), 0, 0,
                           FALSE)

SpecPixel == InitLive /\ [][NextPixel]_vars

\* the pixel bytes of the command draw_image wrote: what follows the opcode, the
\* transaction id, the id of the display and the four numbers
Native == SubSeq(call.blocks[2], 14, Len(call.blocks[2]))

\* C22: the bytes drawn for an image are two per pixel, rows from the top and
\* in a row from the left, the low byte first of
\* ((r >> 3) << 11) | ((g >> 2) << 5) | (b >> 3); black gives 0 0 and white
\* 255 255.
C22_PixelCodec ==
    (call.op = "draw_image" /\ call.outcome = "sent") =>
       LET w == call.image.width
           h == call.image.height
       IN /\ Len(Native) = w * h * 2
          /\ \A i \in 0..(w - 1), j \in 0..(h - 1) :
                LET p == call.image.px[<< i, j >>]
                    v == (p[1] \div 8) * 2048 + (p[2] \div 4) * 32 + (p[3] \div 8)
                    at == 2 * (j * w + i)
                IN /\ Native[at + 1] = v % 256
                   /\ Native[at + 2] = v \div 256
                   /\ p = << 0, 0, 0 >> => SubSeq(Native, at + 1, at + 2) = << 0, 0 >>
                   /\ p = << 255, 255, 255 >>
                        => SubSeq(Native, at + 1, at + 2) = << 255, 255 >>

\* an image of two rows of two pixels, no row and no column of one colour, has
\* been drawn
C22_Witness ==
    /\ call.op = "draw_image"
    /\ call.outcome = "sent"
    /\ call.image.width = 2
    /\ call.image.height = 2
    /\ call.image.px[<< 0, 0 >>] = << 255, 0, 0 >>
    /\ call.image.px[<< 1, 0 >>] = << 255, 255, 255 >>
    /\ call.image.px[<< 0, 1 >>] = << 0, 4, 8 >>
    /\ call.image.px[<< 1, 1 >>] = << 0, 0, 0 >>

\* C23 as claimed: the frames waiting in the queue never exceed a fixed
\* capacity.  The queue is built by Queue(), without maxsize, and put() never
\* blocks nor drops, so the code fixes no capacity: whatever number is taken
\* for it, a peer that sends one frame more while the processor does not run
\* exceeds it.  The peer of this model sends MaxFrames blocks, and the
\* capacity is taken one less.
C23_Original == Len(_messages) <= MaxFrames - 1

(***************************************************************************)
(* SpecOrder: do_action taken statement by statement on the calling        *)
(* thread, while the workers run and the device answers what it receives.  *)
(***************************************************************************)
\* commands that reach the allocation of an id: the two of info() and two more
MaxOrderCmds == 4

\* mutant: the command is written before its slot is recorded
do_action_steps_send_first == << "send", "register" >>

\* do_action, after the id is allocated and the payload built: the slot is
\* recorded if the command is tracked, then send(payload)
do_action_steps == << "register", "send" >>

\* do_action up to the payload: the id allocated, the header and the data joined
DoActionBegin(action, data, track) ==
    /\ main_pc = "idle"
    /\ inited
    /\ data.kind = "int" => data.v \in 0..255
    /\ transaction_id' = NextId(transaction_id)
    /\ ncalls' = ncalls + 1
    /\ call' = [op |-> "do_action", outcome |-> "running", action |-> action,
                track |-> track, id |-> transaction_id',
                payload |-> ToBytes2(action) \o << transaction_id' >> \o DataBytes(data),
                todo |-> do_action_steps]
    /\ main_pc' = "do_action"
    /\ UNCHANGED << envVars, sessionVars, pendingTransactions, cnt, good, readerVars,
                    processVars, inboundVars, wire, histVars >>

\* do_action: its next statement, the recording of the slot or the send
DoActionStep ==
    /\ main_pc = "do_action"
    /\ IF Head(call.todo) = "register"
       THEN /\ pendingTransactions' =
                   IF call.track
                   THEN [pendingTransactions EXCEPT ![call.id] = Some(call.action)]
                   ELSE pendingTransactions
            /\ wire' = wire
       ELSE /\ wire' = wire \o send(call.payload, FALSE).blocks
            /\ pendingTransactions' = pendingTransactions
    /\ call' = [call EXCEPT !.todo = Tail(@),
                            !.outcome = IF Tail(call.todo) = << >> THEN "sent" ELSE @]
    /\ main_pc' = IF Tail(call.todo) = << >> THEN "idle" ELSE "do_action"
    /\ UNCHANGED << envVars, sessionVars, transaction_id, ncalls, cnt, good, readerVars,
                    processVars, inboundVars, histVars >>

\* the device takes what was written and, if that ends with a framed command,
\* acknowledges the command with a message of the same opcode and transaction id
PeerAnswer ==
    /\ wire # << >>
    /\ wire' = << >>
    /\ LET last == wire[Len(wire)]
           block == Framed(SubSeq(last, 1, 3))
       IN IF Len(wire) >= 2 /\ wire[Len(wire) - 1] = prep(last)
          THEN /\ rx' = rx \o block
               /\ devlog' = Append(devlog, block)
          ELSE UNCHANGED << rx, devlog >>
    /\ UNCHANGED << envVars, sessionVars, txVars, mainVars, readerVars, processVars, _buffer,
                    _messages, rdlog, dispatched, events, call >>

NextOrder ==
    \/ InfoSerial
    \/ InfoVersion
    \/ InfoWait
    \/ ncalls < MaxOrderCmds /\ DoActionBegin(1, NoData, TRUE)
    \/ DoActionStep
    \/ PeerAnswer
    \/ ReaderRead
    \/ ProcessGet
    \/ ProcessDispatch

SpecOrder == InitLive /\ [][NextOrder]_vars

\* C29: every command that is on the transport (the blocks of three bytes: the
\* commands of this specification are tracked and carry no data) has its slot
\* recorded, and the slot of a command is recorded when the acknowledgement
\* of the command is dispatched.
C29_RegisteredBeforeWritten ==
    /\ [](\A k \in 1..Len(wire) :
            Len(wire[k]) = 3 => pendingTransactions[wire[k][3]] # None)
    /\ [][(ProcessDispatch /\ Len(buff) >= 3) => pendingTransactions[buff[3]] # None]_vars

\* the acknowledgement of a command sent by do_action was dispatched while the
\* calling thread was inside its next do_action
C29_Witness ==
    /\ main_pc = "do_action"
    /\ call.id = 4
    /\ \E i \in 1..Len(dispatched) : dispatched[i].frame = << 0, 1, 3 >>

(***************************************************************************)
(* SpecRestart: a confirmed device that is stopped and started again,      *)
(* with reads that raise and joins of the reader that time out.  A join    *)
(* times out when the reader has not left its loop by the end of the       *)
(* join's timeout.  A reader that reading_thread no longer names shares    *)
(* every field with the one it names: a read by it is the step ReaderRead. *)
(* Joins of the processor end with the processor terminated.               *)
(***************************************************************************)
\* joins of the reader that time out
MaxOrphans == 2

\* reads that raise
MaxRaises == 1

\* blocks the peer sends
MaxRestartFrames == 1

\* mutant: an exception of the read ends the worker
after_read_unguarded(outcome) == IF outcome = "raised" THEN "terminated" ELSE "loop"

\* where the reader stands after its try / except
after_read(outcome) == "loop"

\* _read_serial: one turn of the loop, connection.read() raising; the chunk
\* logged for it is -1
ReaderReadRaises ==
    /\ reader_pc = "loop"
    /\ reading_running
    /\ rdlog' = Append(rdlog, << -1 >>)
    /\ reader_pc' = after_read("raised")
    /\ UNCHANGED << envVars, sessionVars, txVars, mainVars, reading_running, processVars,
                    _buffer, _messages, rx, wire, histVars, call >>

\* stop(): the join of the reader times out, the reader still in its loop; the
\* warning is logged and stop() goes on
StopJoinReaderTimeout ==
    /\ main_pc = "stop_join_reader"
    /\ reader_pc = "loop"
    /\ process_running' = FALSE
    /\ main_pc' = IF process_running THEN "stop_join_process" ELSE "idle"
    /\ UNCHANGED << envVars, sessionVars, txVars, cnt, good, readerVars, process_pc, buff,
                    inboundVars, wire, histVars, call >>

\* _read_serial in a thread that reading_thread no longer names: the loop
\* finds the flag cleared; the thread ends
OrphanReaderExit ==
    /\ orphan_readers > 0
    /\ ~reading_running
    /\ orphan_readers' = orphan_readers - 1
    /\ UNCHANGED << peer, update_lock, callers, sessionVars, txVars, mainVars, readerVars,
                    processVars, inboundVars, wire, histVars, call >>

\* the reads that raised so far
Raises == { i \in 1..Len(rdlog) : rdlog[i] = << -1 >> }

NextRestart ==
    \/ InfoSerial
    \/ InfoVersion
    \/ InfoWait
    \/ ReaderExit
    \/ ReaderRead
    \/ Cardinality(Raises) < MaxRaises /\ ReaderReadRaises
    \/ OrphanReaderExit
    \/ ProcessExit
    \/ ProcessGet
    \/ ProcessDispatch
    \/ Start
    \/ Stop
    \/ StopJoinReader
    \/ orphan_readers < MaxOrphans /\ StopJoinReaderTimeout
    \/ StopJoinProcess
    \/ \E block \in DeviceBlocks : Len(devlog) < MaxRestartFrames /\ DeviceSend(block)

SpecRestart == InitLive /\ [][NextRestart]_vars

\* C27 as claimed: at most one reader worker is in its loop.
C27_Original == (IF reader_pc = "loop" THEN 1 ELSE 0) + orphan_readers <= 1

\* C28: a read that raises leaves the reader in its loop with its flag set,
\* and the reader leaves its loop only when its flag is cleared.
C28_ReaderResilient ==
    /\ [][ReaderReadRaises => (reader_pc' = "loop" /\ reading_running')]_vars
    /\ [][(reader_pc = "loop" /\ reader_pc' # "loop") => ~reading_running]_vars
    /\ [](reading_running => reader_pc = "loop")

\* a read raised in the middle of a message, and the message was put together
\* from the reads before and after it
C28_Witness ==
    /\ Len(rdlog) >= 3
    /\ rdlog[1] = << MAGIC_BYTE >>
    /\ rdlog[2] = << -1 >>
    /\ Len(_messages) + Len(dispatched) >= 1
    /\ reader_pc = "loop"

\* C33 as claimed: a touch on the center screen with y below 270 has a column
\* in 0..3 and a key in 0..11.
C33_Original ==
    \A e \in TouchEvents :
       (e.screen = "center" /\ e.y < 270) =>
          /\ (e.x - 60) \div 90 \in 0..3
          /\ e.key \in { Some(k) : k \in 0..11 }

\* C34: the dispatch of a TOUCH_END frame whose id is not in the table of
\* touches delivers nothing, leaves the table as it is, and leaves the
\* processor in its loop with its flag set.
C34_UnknownTouchEndDropped ==
    [][(/\ ProcessDispatch
        /\ TouchInHand
        /\ FromBytes(Slice(buff, 0, 2)) = TOUCH_END
        /\ buff[9] \notin DOMAIN touches)
       => /\ events' = events
          /\ touches' = touches
          /\ process_pc' = "loop"
          /\ process_running']_vars

\* with a callback set, the end of a touch that had not begun was dropped, and
\* the touch frame after it was delivered
C34_Witness ==
    /\ Len(dispatched) = 2
    /\ FromBytes(Slice(dispatched[1].frame, 0, 2)) = TOUCH_END
    /\ dispatched[1].outcome = "raised"
    /\ dispatched[1].by = "handler"
    /\ callback # "None"
    /\ Len(events) = 1
    /\ events[1].event.action = "touchstart"

\* the frames the reassembler has put into the queue so far, oldest first
Enqueued == ScanBuffer(Flat(rdlog), << >>).frames

\* C32: every frame the reassembler has enqueued is dispatched, held by the
\* processor or still queued, and no other frame is; each dispatch records the
\* one frame it was handed; and while the processor's flag stays set, the n-th
\* frame enqueued becomes the n-th frame dispatched.
C32_DeliveredExactlyOnce ==
    /\ [](Len(dispatched) + Len(InHand) + Len(_messages) = Len(Enqueued))
    /\ [][ProcessDispatch
            => /\ Len(dispatched') = Len(dispatched) + 1
               /\ dispatched'[Len(dispatched')].frame = buff
               /\ _messages' = _messages]_vars
    /\ \A n \in 1..MaxFrames :
          (Len(Enqueued) >= n)
              ~> (\/ ~process_running
                  \/ Len(dispatched) >= n /\ dispatched[n].frame = Enqueued[n])

\* the same frame was enqueued twice, and with both workers running each copy
\* has been dispatched and nothing is left to read or to pop
C32_Witness ==
    /\ Len(Enqueued) = 2
    /\ Enqueued[1] = Enqueued[2]
    /\ Len(dispatched) = 2
    /\ dispatched[2].frame = Enqueued[2]
    /\ _messages = << >>
    /\ process_pc = "loop"
    /\ rx = << >>
    /\ reading_running
    /\ process_running

\* C35: the first call of is_loupedeck returns the field _is_loupedeck and
\* leaves the session inited; from then on neither field changes; and every
\* call made after that returns the field, writes nothing, reads nothing and
\* changes nothing of the session.
C35_HandshakeIdempotent ==
    /\ [][IsLoupedeckReturn => (inited' /\ call'.result = _is_loupedeck')]_vars
    /\ [][inited => (inited' /\ _is_loupedeck' = _is_loupedeck)]_vars
    /\ [][(main_pc = "idle" /\ inited /\ call' # call /\ call'.op = "is_loupedeck")
            => /\ call'.result = _is_loupedeck
               /\ wire' = wire
               /\ main_pc' = "idle"
               /\ UNCHANGED << cnt, good, inboundVars, sessionVars, txVars, readerVars,
                               processVars, histVars, envVars >>]_vars

\* is_loupedeck was called again on a confirmed device, after the constructor
\* had written the upgrade request and the two commands of info()
C35_Witness ==
    /\ call = [op |-> "is_loupedeck", result |-> TRUE, cached |-> TRUE]
    /\ inited
    /\ _is_loupedeck
    /\ main_pc = "idle"
    /\ Len(wire) = Len(send(WS_UPGRADE_HEADER, TRUE).blocks) + 4

(***************************************************************************)
(* SpecConcurrent: two threads call do_action on a confirmed device, each  *)
(* statement of do_action being one step.  The transaction id is a field   *)
(* of the device that do_action reads again wherever it needs it; only     *)
(* send() takes the lock.                                                  *)
(***************************************************************************)
\* commands that reach the allocation of an id, those of info() included
MaxConcurrentCmds == 4

\* do_action in thread t, one statement at a time: the allocation of the id,
\* the header built from the field, the registration under the field, the send
DoActionStatement(t) ==
    /\ main_pc = "idle"
    /\ inited
    /\ LET c == callers[t] IN
       \/ /\ c.pc = "outside"
          /\ ncalls < MaxConcurrentCmds
          /\ \E action \in {SET_BRIGHTNESS, SET_VIBRATION}, track \in BOOLEAN :
                callers' = [callers EXCEPT ![t] =
                               [pc |-> "header", depth |-> 0, todo |-> << >>, sent |-> c.sent,
                                action |-> action, track |-> track, slot |-> None]]
          /\ transaction_id' = NextId(transaction_id)
          /\ ncalls' = ncalls + 1
          /\ UNCHANGED << pendingTransactions, wire >>
       \/ /\ c.pc = "header"
          /\ callers' = [callers EXCEPT ![t] =
                            [c EXCEPT !.pc = "register",
                                      !.todo = ToBytes2(c.action) \o << transaction_id >>]]
          /\ UNCHANGED << transaction_id, ncalls, pendingTransactions, wire >>
       \/ /\ c.pc = "register"
          /\ pendingTransactions' =
                IF c.track THEN [pendingTransactions EXCEPT ![transaction_id] = Some(c.action)]
                ELSE pendingTransactions
          /\ callers' = [callers EXCEPT ![t] =
                            [c EXCEPT !.pc = "send",
                                      !.slot = IF c.track THEN Some(transaction_id) ELSE None]]
          /\ UNCHANGED << transaction_id, ncalls, wire >>
       \/ /\ c.pc = "send"
          /\ wire' = wire \o send(c.todo, FALSE).blocks
          /\ callers' = [callers EXCEPT ![t] = [c EXCEPT !.pc = "outside", !.sent = c.sent + 1]]
          /\ UNCHANGED << transaction_id, ncalls, pendingTransactions >>
    /\ UNCHANGED << peer, update_lock, orphan_readers, sessionVars, mainVars, readerVars,
                    processVars, inboundVars, histVars, call >>

NextConcurrent ==
    \/ InfoSerial
    \/ InfoVersion
    \/ InfoWait
    \/ \E t \in Threads : DoActionStatement(t)

SpecConcurrent == InitLive /\ [][NextConcurrent]_vars

\* the commands written to the transport after the upgrade request, oldest first
CommandsWritten ==
    LET h == Len(send(WS_UPGRADE_HEADER, TRUE).blocks)
    IN [k \in 1..((Len(wire) - h) \div 2) |-> wire[h + 2 * k]]

\* C31 as claimed: the commands written carry ids that differ from one another,
\* and a tracked call that has returned recorded its action in the slot of the
\* id that its own frame carries.
C31_Original ==
    /\ \A i, j \in DOMAIN CommandsWritten :
          i # j => CommandsWritten[i][3] # CommandsWritten[j][3]
    /\ \A t \in Threads :
          (callers[t].sent > 0 /\ callers[t].pc = "outside" /\ callers[t].track)
             => callers[t].slot = Some(callers[t].todo[3])

=============================================================================
